---- MODULE Spec2Model ----
(***************************************************************************)
(* Model of the frontmatter tag engine (TagProcessor) and of the folder    *)
(* batches (FileService) of obsidian-tag-renamer.                          *)
(*                                                                         *)
(* Text is modelled character by character: a string is a sequence of      *)
(* one-character strings.  A frontmatter is the sequence of its lines      *)
(* (the text split at "\n"); a line is a record                            *)
(*   [k |-> "other",  text |-> s]  any line no tag regex matches           *)
(*   [k |-> "blank"]               the empty line                          *)
(*   [k |-> "array",  text |-> s]  the line  tags: [s]                     *)
(*   [k |-> "list",   items |-> l] the line  tags:  followed by the item   *)
(*                                 lines l (each the raw text of a line)   *)
(*   [k |-> "scalar", text |-> s]  the line  tag: s                        *)
(***************************************************************************)
EXTENDS Integers, Sequences, FiniteSets, TLC

VARIABLES
  content,          \* the document given to the tag engine
  patterns,         \* settings.renamePatterns
  result,           \* what the tag engine returned last
  prev,             \* the document the last call was given; where the settings or
                    \* the folder change, what they were before the calls
  op,               \* which calls of the tag engine have been made; where the
                    \* settings change, how many changes have been made
  propertyPatterns, \* settings.propertyRenamePatterns
  vault,            \* the text of every file, by file id
  batch,            \* the folder batch that is running
  validPatterns,    \* the patterns the running batch applies
  files,            \* the enumeration of the running batch
  idx,              \* the position of the loop `for (const file of files)`
  pc,               \* where the running batch is suspended
  readText,         \* the text read for the current file
  processedCount,
  modifiedCount,
  notices,          \* the Notices shown, oldest first
  writes,           \* the vault.modify calls issued: file, text, completed
  reads,            \* the vault.read calls that have settled, in the order in
                    \* which they were issued: file, completed
  raised,           \* the batch call rejected with an error
  wasModified,      \* what removeDuplicatesFromFile returned last
  allTags,          \* the Set of a vault scan, in insertion order
  batchResults      \* the arrays the reads of the current group resolved to

vars == <<content, patterns, result, prev, op, propertyPatterns,
          vault, batch, validPatterns, files, idx, pc, readText, processedCount,
          modifiedCount, notices, writes, reads, raised, wasModified,
          allTags, batchResults>>

scanVars == <<allTags, batchResults>>

tagVars == <<content, patterns, result, prev, op>>

batchVars == <<propertyPatterns, vault, batch, validPatterns, files, idx, pc,
               readText, processedCount, modifiedCount, notices, writes, reads,
               raised, wasModified, allTags, batchResults>>

(***************************************************************************)
(* Strings                                                                 *)
(***************************************************************************)
Empty == <<>>

IsWs(c) == c = " "

RECURSIVE LStrip(_)
LStrip(s) == IF s # <<>> /\ IsWs(Head(s)) THEN LStrip(Tail(s)) ELSE s

RECURSIVE RStrip(_)
RStrip(s) ==
  IF s # <<>> /\ IsWs(s[Len(s)]) THEN RStrip(SubSeq(s, 1, Len(s) - 1)) ELSE s

\* String.prototype.trim
Trim(s) == RStrip(LStrip(s))

IsQuote(c) == c \in {"'", "\""}

NotQuote(c) == ~IsQuote(c)

\* s.replace(/['"]/g, '')
StripQuotes(s) == SelectSeq(s, NotQuote)

\* `"${tag}"`
Quote(s) == <<"\"">> \o s \o <<"\"">>

\* String.prototype.includes
Includes(s, sub) ==
  \E i \in 0..(Len(s) - Len(sub)) : SubSeq(s, i + 1, i + Len(sub)) = sub

\* index of the first occurrence of character c in s at or after i, 0 if none
RECURSIVE IndexOf(_, _, _)
IndexOf(s, c, i) ==
  IF i > Len(s) THEN 0
  ELSE IF s[i] = c THEN i
  ELSE IndexOf(s, c, i + 1)

\* s.split(',')
RECURSIVE Split(_, _)
Split(s, sep) ==
  LET i == IndexOf(s, sep, 1)
  IN  IF i = 0 THEN <<s>>
      ELSE <<SubSeq(s, 1, i - 1)>> \o Split(SubSeq(s, i + 1, Len(s)), sep)

\* Array.prototype.join
RECURSIVE Join(_, _)
Join(ss, sep) ==
  IF ss = <<>> THEN <<>>
  ELSE IF Len(ss) = 1 THEN ss[1]
  ELSE ss[1] \o sep \o Join(Tail(ss), sep)

NonEmpty(s) == Len(s) > 0

RECURSIVE MapSeq(_, _)
MapSeq(F(_), ss) ==
  IF ss = <<>> THEN <<>> ELSE <<F(Head(ss))>> \o MapSeq(F, Tail(ss))

(***************************************************************************)
(* Regular expressions: the subset the pattern matcher builds.             *)
(***************************************************************************)
RegexSpecial == {".", "*", "+", "?", "^", "$", "{", "}", "(", ")", "|", "[", "]", "\\"}

\* escapeRegex that leaves the special characters as they are
escapeRegexNone(s) == s

\* TagProcessor.escapeRegex
RECURSIVE escapeRegex(_)
escapeRegex(s) ==
  IF s = <<>> THEN <<>>
  ELSE (IF Head(s) \in RegexSpecial THEN <<"\\", Head(s)>> ELSE <<Head(s)>>)
       \o escapeRegex(Tail(s))

\* the tokens of a regex source: an escaped character is a literal, "." is
\* any character, "^" and "$" are the assertions, anything else is a literal
RECURSIVE RegexTokens(_)
RegexTokens(src) ==
  IF src = <<>> THEN <<>>
  ELSE IF Head(src) = "\\" /\ Len(src) >= 2
       THEN <<[t |-> "lit", c |-> src[2]]>> \o RegexTokens(SubSeq(src, 3, Len(src)))
  ELSE IF Head(src) = "." THEN <<[t |-> "any", c |-> "."]>> \o RegexTokens(Tail(src))
  ELSE IF Head(src) = "^" THEN <<[t |-> "bol", c |-> "^"]>> \o RegexTokens(Tail(src))
  ELSE IF Head(src) = "$" THEN <<[t |-> "eol", c |-> "$"]>> \o RegexTokens(Tail(src))
  ELSE <<[t |-> "lit", c |-> Head(src)]>> \o RegexTokens(Tail(src))

\* the tokens from index k on match s from position pos on
RECURSIVE MatchAt(_, _, _, _)
MatchAt(toks, k, s, pos) ==
  IF k > Len(toks) THEN TRUE
  ELSE LET tk == toks[k]
       IN  CASE tk.t = "bol" -> pos = 1 /\ MatchAt(toks, k + 1, s, pos)
             [] tk.t = "eol" -> pos = Len(s) + 1 /\ MatchAt(toks, k + 1, s, pos)
             [] tk.t = "any" -> pos <= Len(s) /\ MatchAt(toks, k + 1, s, pos + 1)
             [] OTHER -> pos <= Len(s) /\ s[pos] = tk.c
                         /\ MatchAt(toks, k + 1, s, pos + 1)

\* RegExp.prototype.test (no flags): a match starting anywhere
RegexTest(toks, s) == \E pos \in 1..(Len(s) + 1) : MatchAt(toks, 1, s, pos)

\* new RegExp(`^${this.escapeRegex(p.search)}$`)
CompilePattern(p) ==
  [search |-> p.search, replace |-> p.replace, removeMode |-> p.removeMode,
   regex |-> RegexTokens(<<"^">> \o escapeRegex(p.search) \o <<"$">>)]

(***************************************************************************)
(* Display links                                                           *)
(***************************************************************************)
\* tag.match(/^\[([^\]]+)\](\([^)]*\))$/): the position of the closing "]"
\* when the whole tag has the form [display](target), 0 otherwise
LinkClose(tag) ==
  LET n == Len(tag)
      j == IndexOf(tag, "]", 1)
  IN  IF /\ n >= 5
         /\ tag[1] = "["
         /\ j >= 3
         /\ j + 1 <= n
         /\ tag[j + 1] = "("
         /\ tag[n] = ")"
         /\ IndexOf(tag, ")", j + 2) = n
      THEN j ELSE 0

\* TagProcessor.extractDisplayText
extractDisplayText(tag) ==
  LET j == LinkClose(tag)
  IN  IF j # 0 THEN SubSeq(tag, 2, j - 1) ELSE tag

\* the replace text written whatever the form of tag
ReplacementPlain(tag, pattern) == pattern.replace

\* the value a matching non-remove pattern writes for tag
Replacement(tag, pattern) ==
  LET j == LinkClose(tag)
  IN  IF Includes(tag, <<"[">>) /\ Includes(tag, <<"]", "(">>) /\ j # 0
      THEN <<"[">> \o pattern.replace \o <<"]">> \o SubSeq(tag, j + 1, Len(tag))
      ELSE pattern.replace

(***************************************************************************)
(* Documents.  A document is [fm, header, body]: fm says whether the text   *)
(* starts with a "---" line closed by a later "---" line (FRONTMATTER       *)
(* matches), header is the sequence of the lines between the delimiters    *)
(* (for a text without delimiters: the lines it starts with), body is the  *)
(* text after the closing delimiter.                                       *)
(***************************************************************************)
Blank == [k |-> "blank"]

IsBlank(line) == line.k = "blank"

NotBlank(line) == line.k # "blank"

\* the line written with equal values merged into the first of them
ArrayLineMerged(tags) ==
  LET kept == SelectSeq(tags, NonEmpty)
      First[i \in 0..Len(kept)] ==
        IF i = 0 THEN <<>>
        ELSE IF \E h \in 1..(i - 1) : kept[h] = kept[i] THEN First[i - 1]
        ELSE Append(First[i - 1], kept[i])
  IN  [k |-> "array", text |-> Join(MapSeq(Quote, First[Len(kept)]), <<",", " ">>)]

\* `tags: [${formattedTags}]`
ArrayLine(tags) ==
  [k |-> "array",
   text |-> Join(MapSeq(Quote, SelectSeq(tags, NonEmpty)), <<",", " ">>)]

\* `  - "${tag}"`
ItemLine(tag) == <<" ", " ", "-", " ">> \o Quote(tag)

\* tagContent.split(',').map(tag => tag.trim().replace(/['"]/g, ''))
ArrayTags(text) ==
  LET Clean(part) == StripQuotes(Trim(part))
  IN  MapSeq(Clean, Split(text, ","))

\* line.replace(/^\s*-\s*/, '')
DropDash(line) ==
  LET s == LStrip(line)
  IN  IF s # <<>> /\ Head(s) = "-" THEN LStrip(Tail(s)) ELSE line

\* tagLines.map(line => line.replace(/^\s*-\s*/, '').trim().replace(/['"]/g, ''))
\*         .filter(tag => tag.length > 0)
ListTags(items) ==
  LET Clean(line) == StripQuotes(Trim(DropDash(line)))
  IN  SelectSeq(MapSeq(Clean, items), NonEmpty)

\* pattern.regex.test(displayText), displayText taken from tag.trim() in the
\* array branch (trimmed) and from tag in the list branch
Hit(pattern, tag, trimmed) ==
  RegexTest(pattern.regex, extractDisplayText(IF trimmed THEN Trim(tag) ELSE tag))

\* the loop `for (const pattern of compiledPatterns)` over the running list
\* of values; the result is the final list and whether a replace matched
RECURSIVE ApplyPatterns(_, _, _, _)
ApplyPatterns(tags, cps, trimmed, modified) ==
  IF cps = <<>> THEN [tags |-> tags, modified |-> modified]
  ELSE LET pattern == Head(cps)
           Keep(tag) == ~Hit(pattern, tag, trimmed)
           Subst(tag) ==
             IF Hit(pattern, tag, trimmed)
             THEN Replacement(IF trimmed THEN Trim(tag) ELSE tag, pattern)
             ELSE tag
       IN  IF pattern.removeMode
           THEN ApplyPatterns(SelectSeq(tags, Keep), Tail(cps), trimmed, modified)
           ELSE ApplyPatterns(MapSeq(Subst, tags), Tail(cps), trimmed,
                              modified \/ \E i \in 1..Len(tags) :
                                             Hit(pattern, tags[i], trimmed))

\* the array callback with every pattern applied to the values as they were
\* read, the first matching pattern deciding
ProcessArrayNoChain(line, cps) ==
  LET tags == ArrayTags(line.text)
      First(tag) ==
        IF \E j \in 1..Len(cps) : Hit(cps[j], tag, TRUE)
        THEN <<cps[CHOOSE j \in 1..Len(cps) :
                     /\ Hit(cps[j], tag, TRUE)
                     /\ \A h \in 1..(j - 1) : ~Hit(cps[h], tag, TRUE)]>>
        ELSE <<>>
      One(tag) == ApplyPatterns(<<tag>>, First(tag), TRUE, FALSE)
      out == [i \in 1..Len(tags) |-> One(tags[i])]
      Flat[i \in 0..Len(tags)] == IF i = 0 THEN <<>> ELSE Flat[i - 1] \o out[i].tags
  IN  [lines |-> <<ArrayLine(Flat[Len(tags)])>>,
       modified |-> Len(Flat[Len(tags)]) # Len(tags)
                    \/ \E i \in 1..Len(tags) : out[i].modified]

\* the callback of frontmatter.replace(TAG_ARRAY, ...) in processFileContent
ProcessArray(line, cps) ==
  LET tags == ArrayTags(line.text)
      r == ApplyPatterns(tags, cps, TRUE, FALSE)
  IN  [lines |-> <<ArrayLine(r.tags)>>,
       modified |-> r.modified \/ Len(r.tags) # Len(tags)]

\* the list callback without `if (tags.length === 0) return ''`
ProcessListKeepKey(line, cps, last) ==
  LET tags == ListTags(line.items)
      r == ApplyPatterns(tags, cps, FALSE, FALSE)
  IN  [lines |-> <<[k |-> "list", items |-> MapSeq(ItemLine, r.tags)]>>
                 \o (IF last THEN <<Blank>> ELSE <<>>),
       modified |-> r.modified \/ Len(r.tags) # Len(tags)]

\* the callback of frontmatter.replace(TAG_LIST, ...) in processFileContent;
\* the matched block ends with "\n" unless it ends the frontmatter (last),
\* the replacement always does
ProcessList(line, cps, last) ==
  LET tags == ListTags(line.items)
      r == ApplyPatterns(tags, cps, FALSE, FALSE)
      tail == IF last THEN <<Blank>> ELSE <<>>
  IN  [lines |-> IF Len(r.tags) = 0 THEN tail
                 ELSE <<[k |-> "list", items |-> MapSeq(ItemLine, r.tags)]>> \o tail,
       modified |-> r.modified \/ Len(r.tags) # Len(tags)]

\* the loop of the callback of frontmatter.replace(SINGLE_TAG, ...)
RECURSIVE ScalarPatterns(_, _, _)
ScalarPatterns(line, cleanTag, cps) ==
  IF cps = <<>> THEN [lines |-> <<line>>, modified |-> FALSE]
  ELSE LET pattern == Head(cps)
       IN  IF RegexTest(pattern.regex, extractDisplayText(cleanTag))
           THEN [lines |-> IF pattern.removeMode THEN <<Blank>>
                           ELSE <<[k |-> "scalar",
                                   text |-> Quote(Replacement(cleanTag, pattern))]>>,
                 modified |-> TRUE]
           ELSE ScalarPatterns(line, cleanTag, Tail(cps))

\* the callback of frontmatter.replace(SINGLE_TAG, ...) in processFileContent
ProcessScalar(line, cps) ==
  ScalarPatterns(line, StripQuotes(Trim(line.text)), cps)

\* the three replace passes of processFileContent over the lines from i on
RECURSIVE ProcessLines(_, _, _)
ProcessLines(header, i, cps) ==
  IF i > Len(header) THEN [lines |-> <<>>, modified |-> FALSE]
  ELSE LET line == header[i]
           r == CASE line.k = "array" -> ProcessArray(line, cps)
                  [] line.k = "list" -> ProcessList(line, cps, i = Len(header))
                  [] line.k = "scalar" -> ProcessScalar(line, cps)
                  [] OTHER -> [lines |-> <<line>>, modified |-> FALSE]
           rest == ProcessLines(header, i + 1, cps)
       IN  [lines |-> r.lines \o rest.lines,
            modified |-> r.modified \/ rest.modified]

\* frontmatter.replace(EMPTY_LINES, '\n').replace(TRIM_LINES, '')
CleanUp(lines) ==
  IF \A i \in 1..Len(lines) : IsBlank(lines[i]) THEN <<Blank>>
  ELSE SelectSeq(lines, NotBlank)

\* the replacement string of content.replace(FRONTMATTER, `---\n${frontmatter}\n---`)
\* is expanded as a replacement pattern: "$$" stands for one "$".  ("$&",
\* "$1", "$`" and "$'" insert text of several lines; the documents of the
\* model hold no such pair.)
RECURSIVE GetSubstitution(_)
GetSubstitution(text) ==
  IF Len(text) < 2 THEN text
  ELSE IF text[1] = "$" /\ text[2] = "$"
       THEN <<"$">> \o GetSubstitution(SubSeq(text, 3, Len(text)))
       ELSE <<text[1]>> \o GetSubstitution(Tail(text))

\* the expansion, line by line
SubstituteLine(line) ==
  CASE line.k = "list" -> [k |-> "list", items |-> MapSeq(GetSubstitution, line.items)]
    [] line.k = "blank" -> line
    [] OTHER -> [k |-> line.k, text |-> GetSubstitution(line.text)]

\* content.replace(FRONTMATTER, `---\n${frontmatter}\n---`)
ReplaceFrontmatter(doc, lines) ==
  [fm |-> TRUE, header |-> MapSeq(SubstituteLine, lines), body |-> doc.body]

\* processFileContent without `if (modified)`: the rewritten text is returned
\* whether or not a pattern matched
processFileContentAlways(doc, pats) ==
  IF ~doc.fm THEN doc
  ELSE LET cps == MapSeq(CompilePattern, pats)
           r == ProcessLines(doc.header, 1, cps)
       IN  ReplaceFrontmatter(doc, CleanUp(r.lines))

\* TagProcessor.processFileContent
processFileContent(doc, pats) ==
  IF ~doc.fm THEN doc
  ELSE LET cps == MapSeq(CompilePattern, pats)
           r == ProcessLines(doc.header, 1, cps)
       IN  IF r.modified
           THEN ReplaceFrontmatter(doc, CleanUp(r.lines))
           ELSE doc

\* the distinct values in the order of their last occurrence
RECURSIVE UniqueLast(_)
UniqueLast(tags) ==
  IF tags = <<>> THEN <<>>
  ELSE IF \E i \in 2..Len(tags) : tags[i] = Head(tags)
       THEN UniqueLast(Tail(tags))
       ELSE <<Head(tags)>> \o UniqueLast(Tail(tags))

\* [...new Set(tags)]: the distinct values in the order of first insertion
RECURSIVE Unique(_)
Unique(tags) ==
  IF tags = <<>> THEN <<>>
  ELSE LET init == Unique(SubSeq(tags, 1, Len(tags) - 1))
           x == tags[Len(tags)]
       IN  IF \E i \in 1..Len(init) : init[i] = x THEN init ELSE Append(init, x)

\* the array callback without the comparison of the two lengths
DedupeArrayAlways(line) ==
  [lines |-> <<ArrayLine(Unique(SelectSeq(ArrayTags(line.text), NonEmpty)))>>,
   modified |-> TRUE]

\* the callback of frontmatter.replace(TAG_ARRAY, ...) in
\* removeDuplicateTagsFromContent
DedupeArray(line) ==
  LET tags == SelectSeq(ArrayTags(line.text), NonEmpty)
      uniqueTags == Unique(tags)
  IN  IF Len(uniqueTags) # Len(tags)
      THEN [lines |-> <<ArrayLine(uniqueTags)>>, modified |-> TRUE]
      ELSE [lines |-> <<line>>, modified |-> FALSE]

\* the callback of frontmatter.replace(TAG_LIST, ...) in
\* removeDuplicateTagsFromContent
DedupeList(line, last) ==
  LET tags == ListTags(line.items)
      uniqueTags == Unique(tags)
  IN  IF Len(uniqueTags) # Len(tags)
      THEN [lines |-> <<[k |-> "list", items |-> MapSeq(ItemLine, uniqueTags)]>>
                      \o (IF last THEN <<Blank>> ELSE <<>>),
            modified |-> TRUE]
      ELSE [lines |-> <<line>>, modified |-> FALSE]

\* the two replace passes of removeDuplicateTagsFromContent over the lines
\* from i on
RECURSIVE DedupeLines(_, _)
DedupeLines(header, i) ==
  IF i > Len(header) THEN [lines |-> <<>>, modified |-> FALSE]
  ELSE LET line == header[i]
           r == CASE line.k = "array" -> DedupeArray(line)
                  [] line.k = "list" -> DedupeList(line, i = Len(header))
                  [] OTHER -> [lines |-> <<line>>, modified |-> FALSE]
           rest == DedupeLines(header, i + 1)
       IN  [lines |-> r.lines \o rest.lines,
            modified |-> r.modified \/ rest.modified]

\* TagProcessor.removeDuplicateTagsFromContent
removeDuplicateTagsFromContent(doc) ==
  IF ~doc.fm THEN doc
  ELSE LET r == DedupeLines(doc.header, 1)
       IN  IF r.modified
           THEN ReplaceFrontmatter(doc, r.lines)
           ELSE doc

(***************************************************************************)
(* TagPropertyProcessor.  The processor works on the text of the lines;    *)
(* a line whose name it rewrites is no tags/tag line any more, so in the   *)
(* result it is a line (or lines) of kind "other".  The names the model    *)
(* renames to never make a line a tags or tag field.                       *)
(***************************************************************************)
sTags == <<"t", "a", "g", "s">>

sTag == <<"t", "a", "g">>

\* the lines of the text that one line record stands for
LineTexts(line) ==
  CASE line.k = "other" -> <<line.text>>
    [] line.k = "array" -> <<sTags \o <<":", " ", "[">> \o line.text \o <<"]">>>>
    [] line.k = "list" -> <<sTags \o <<":">>>> \o line.items
    [] line.k = "scalar" -> <<sTag \o <<":", " ">> \o line.text>>
    [] OTHER -> <<<<>>>>

\* TagPropertyProcessor.escapeRegexSpecialChars
escapeRegexSpecialChars(str) == escapeRegex(str)

\* new RegExp(`^(\\s*)(${escapedFrom})(\\s*:)(.*?)$`, 'gm') on one line:
\* the length of the indentation when the line matches, -1 otherwise
PropertyMatch(text, from) ==
  LET indent == Len(text) - Len(LStrip(text))
      name == RegexTokens(escapeRegexSpecialChars(from))
      after == LStrip(SubSeq(text, indent + Len(from) + 1, Len(text)))
  IN  IF /\ Len(text) >= indent + Len(from)
         /\ MatchAt(name, 1, SubSeq(text, 1, indent + Len(from)), indent + 1)
         /\ after # <<>>
         /\ Head(after) = ":"
      THEN indent ELSE 0 - 1

\* `${indent}${to}${colon}${rest}`
RenamedText(text, pattern) ==
  LET indent == PropertyMatch(text, pattern.from)
  IN  IF indent < 0 THEN text
      ELSE SubSeq(text, 1, indent) \o pattern.to
           \o SubSeq(text, indent + Len(pattern.from) + 1, Len(text))

AsOther(text) == [k |-> "other", text |-> text]

\* frontmatter.replace(propertyRegex, ...) for one pattern on one line record
RenameLine(line, pattern) ==
  LET texts == LineTexts(line)
      Renamed(text) == RenamedText(text, pattern)
  IN  IF line.k # "blank" /\ \E i \in 1..Len(texts) : PropertyMatch(texts[i], pattern.from) >= 0
      THEN [lines |-> MapSeq(AsOther, MapSeq(Renamed, texts)), modified |-> TRUE]
      ELSE [lines |-> <<line>>, modified |-> FALSE]

RECURSIVE RenameLines(_, _)
RenameLines(header, pattern) ==
  IF header = <<>> THEN [lines |-> <<>>, modified |-> FALSE]
  ELSE LET r == RenameLine(Head(header), pattern)
           rest == RenameLines(Tail(header), pattern)
       IN  [lines |-> r.lines \o rest.lines, modified |-> r.modified \/ rest.modified]

\* the loop `for (const pattern of patterns)` of renameTagProperties
RECURSIVE RenameAll(_, _, _)
RenameAll(header, pats, modified) ==
  IF pats = <<>> THEN [lines |-> header, modified |-> modified]
  ELSE LET r == RenameLines(header, Head(pats))
       IN  RenameAll(r.lines, Tail(pats), modified \/ r.modified)

\* TagPropertyProcessor.renameTagProperties
renameTagProperties(doc, pats) ==
  IF ~doc.fm \/ Len(pats) = 0 THEN doc
  ELSE LET r == RenameAll(doc.header, pats, FALSE)
       IN  IF r.modified
           THEN ReplaceFrontmatter(doc, r.lines)
           ELSE doc


(***************************************************************************)
(* Inputs                                                                  *)
(***************************************************************************)
MaxTags == 2

MaxPats == 2

sA == <<"a">>

sB == <<"b">>

sAB == <<"a", "b">>

sDotB == <<".", "b">>

sLinkA == <<"[", "a", "]", "(", "t", ")">>

\* the raw texts of one value as they are written in a tags field
RawValues == {sA, sB, sAB, sLinkA}

Patterns ==
  {[search |-> s, replace |-> r, removeMode |-> FALSE] : s \in {sA, sB}, r \in {sB, sAB}}
  \cup {[search |-> sDotB, replace |-> sB, removeMode |-> FALSE]}
  \cup {[search |-> s, replace |-> <<>>, removeMode |-> TRUE] : s \in {sA, sB}}

SeqsUpTo(S, lo, hi) == UNION {[1..n -> S] : n \in lo..hi}

PatternLists == SeqsUpTo(Patterns, 0, MaxPats)

OtherLine == [k |-> "other", text |-> <<"t", ":", " ", "x">>]

InputArray(vals) == [k |-> "array", text |-> Join(vals, <<",", " ">>)]

InputItem(val) == <<" ", " ", "-", " ">> \o val

InputList(vals) == [k |-> "list", items |-> MapSeq(InputItem, vals)]

InputScalar(val) == [k |-> "scalar", text |-> val]

Fields ==
  {InputArray(vs) : vs \in SeqsUpTo(RawValues, 0, MaxTags)}
  \cup {InputList(vs) : vs \in SeqsUpTo(RawValues, 1, MaxTags)}
  \cup {InputScalar(v) : v \in RawValues}

Layouts(f) == {<<OtherLine, f>>, <<f, Blank, OtherLine>>}

\* headers that consist of the field alone
Alone == {<<InputArray(<<sA>>)>>, <<InputList(<<sA>>)>>, <<InputScalar(sA)>>}

\* headers with an array field and a list field
TwoFields ==
  {<<InputArray(<<v>>), InputList(<<w>>), OtherLine>> : v, w \in {sA, sB}}

\* headers whose values are written in quotes
QuotedFields ==
  {<<InputArray(<<Quote(sA), sAB>>), Blank, OtherLine>>,
   <<InputList(<<Quote(sA), sAB>>), Blank, OtherLine>>,
   <<InputScalar(Quote(sA)), Blank, OtherLine>>}

\* a header line that is no tags field and holds "$$"
DollarLine == [k |-> "other", text |-> <<"p", ":", " ", "$", "$", "5">>]

\* headers with such a line next to a tags field
DollarFields ==
  {<<DollarLine, InputArray(<<sA>>)>>, <<InputList(<<sA>>), DollarLine>>,
   <<DollarLine, InputScalar(sA)>>}

Docs ==
  {[fm |-> TRUE, header |-> h, body |-> "body"] :
     h \in UNION {Layouts(f) : f \in Fields} \cup Alone \cup TwoFields \cup QuotedFields
            \cup DollarFields}

(***************************************************************************)
(* The tag engine applied to one document                                  *)
(***************************************************************************)
BatchIdle ==
  /\ propertyPatterns = <<>>
  /\ vault = <<>>
  /\ batch = "none"
  /\ validPatterns = <<>>
  /\ files = <<>>
  /\ idx = 0
  /\ pc = "idle"
  /\ readText = <<>>
  /\ processedCount = 0
  /\ modifiedCount = 0
  /\ notices = <<>>
  /\ writes = <<>>
  /\ reads = <<>>
  /\ raised = FALSE
  /\ wasModified = FALSE
  /\ allTags = <<>>
  /\ batchResults = <<>>

Init ==
  /\ content \in Docs
  /\ patterns \in PatternLists
  /\ result = content
  /\ prev = content
  /\ op = "init"
  /\ BatchIdle

\* result = processFileContent(content, patterns)
Process ==
  /\ op = "init"
  /\ result' = processFileContent(content, patterns)
  /\ prev' = content
  /\ op' = "processed"
  /\ UNCHANGED <<content, patterns>>
  /\ UNCHANGED batchVars

\* the same patterns applied to the result once more
ProcessAgain ==
  /\ op = "processed"
  /\ result' = processFileContent(result, patterns)
  /\ prev' = result
  /\ op' = "processedTwice"
  /\ UNCHANGED <<content, patterns>>
  /\ UNCHANGED batchVars

Next == Process \/ ProcessAgain

Spec == Init /\ [][Next]_vars

(***************************************************************************)
(* Vocabulary of the properties                                            *)
(***************************************************************************)
\* the values of one line of a header: trimmed, unquoted, non-empty
FieldValues(line) ==
  CASE line.k = "array" -> SelectSeq(ArrayTags(line.text), NonEmpty)
    [] line.k = "list" -> ListTags(line.items)
    [] line.k = "scalar" -> SelectSeq(<<StripQuotes(Trim(line.text))>>, NonEmpty)
    [] OTHER -> <<>>

RECURSIVE HeaderValues(_)
HeaderValues(header) ==
  IF header = <<>> THEN <<>>
  ELSE FieldValues(Head(header)) \o HeaderValues(Tail(header))

\* the tag values of a document, in text order
DocValues(doc) == IF doc.fm THEN HeaderValues(doc.header) ELSE <<>>

Count(x, seq) == Cardinality({i \in 1..Len(seq) : seq[i] = x})

\* value v equals the search of pattern p as a whole string
Equals(p, v) == p.search = extractDisplayText(v)

\* the position in pats of the first pattern whose search equals v, 0 if none
FirstMatch(v, pats) ==
  IF \E j \in 1..Len(pats) : Equals(pats[j], v)
  THEN CHOOSE j \in 1..Len(pats) :
         /\ Equals(pats[j], v)
         /\ \A h \in 1..(j - 1) : ~Equals(pats[h], v)
  ELSE 0

Processed == op \in {"processed", "processedTwice"}

CountLines(header, P(_)) == Cardinality({i \in 1..Len(header) : P(header[i])})

(***************************************************************************)
(* C1  Exact match only: a tag value that equals the search of no pattern  *)
(* as a whole string (a value that merely contains a search, or that a     *)
(* search would match as a wildcard) is neither replaced nor removed by    *)
(* processFileContent: it occurs in the output at least as often as in     *)
(* the input, in array, list and scalar shape.                             *)
(***************************************************************************)
ExactMatchOnly ==
  Processed =>
    LET in == DocValues(prev)
        out == DocValues(result)
    IN  \A i \in 1..Len(in) :
          (\A j \in 1..Len(patterns) : ~Equals(patterns[j], in[i]))
          => Count(in[i], out) >= Count(in[i], in)

\* a document was rewritten and a value that contains a search, without
\* being equal to one, is still there
ExactMatchOnlyWitness ==
  /\ op = "processed"
  /\ result # content
  /\ \E i \in 1..Len(DocValues(content)) :
       LET v == DocValues(content)[i]
       IN  /\ \A j \in 1..Len(patterns) : ~Equals(patterns[j], v)
           /\ \E j \in 1..Len(patterns) : Includes(v, patterns[j].search)
           /\ Count(v, DocValues(result)) = Count(v, DocValues(content))

(***************************************************************************)
(* C5  Idempotence of renaming: with patterns that are all non-removing,   *)
(* processing the result of processFileContent once more with the same     *)
(* patterns returns it unchanged.                                          *)
(***************************************************************************)
RenameIdempotent ==
  (op = "processedTwice" /\ \A j \in 1..Len(patterns) : ~patterns[j].removeMode)
    => result = prev

(***************************************************************************)
(* C6  Round trip on no match: when no tag value of the document equals    *)
(* the search of a pattern, processFileContent returns the document it     *)
(* was given: no re-quoting, no blank line removed.                        *)
(***************************************************************************)
NoValueMatched(doc, pats) ==
  LET vals == DocValues(doc)
  IN  \A i \in 1..Len(vals) : \A j \in 1..Len(pats) : ~Equals(pats[j], vals[i])

NoMatchRoundTrip ==
  (op = "processed" /\ NoValueMatched(content, patterns)) => result = content

\* an unmatched document with unquoted values and a blank line, which a
\* rewrite would have changed, went through a non-empty pattern list
NoMatchRoundTripWitness ==
  /\ op = "processed"
  /\ patterns # <<>>
  /\ NoValueMatched(content, patterns)
  /\ DocValues(content) # <<>>
  /\ \E i \in 1..Len(content.header) : IsBlank(content.header[i])
  /\ \E i \in 1..Len(content.header) :
       content.header[i].k = "array" /\ ~Includes(content.header[i].text, <<"\"">>)
  /\ result = content

(***************************************************************************)
(* C9  Remove to empty depends on the shape: a list field all of whose     *)
(* values are removed (the first pattern that equals each value is a       *)
(* remove-mode pattern) disappears from the header, while an array field   *)
(* all of whose values are removed stays as the line  tags: []             *)
(***************************************************************************)
AllRemoved(line) ==
  /\ FieldValues(line) # <<>>
  /\ \A n \in 1..Len(FieldValues(line)) :
       LET j == FirstMatch(FieldValues(line)[n], patterns)
       IN  j # 0 /\ patterns[j].removeMode

IsList(line) == line.k = "list"

IsArray(line) == line.k = "array"

EmptiedList(line) == line.k = "list" /\ AllRemoved(line)

EmptiedArray(line) == line.k = "array" /\ AllRemoved(line)

EmptyArray(line) == line.k = "array" /\ line.text = <<>>

RemoveToEmpty ==
  (op = "processed" /\ content.fm) =>
    /\ CountLines(content.header, EmptiedList) > 0 =>
         CountLines(result.header, IsList)
           <= CountLines(content.header, IsList) - CountLines(content.header, EmptiedList)
    /\ CountLines(content.header, EmptiedArray) > 0 =>
         /\ CountLines(result.header, IsArray) = CountLines(content.header, IsArray)
         /\ CountLines(result.header, EmptyArray)
              >= CountLines(content.header, EmptiedArray)

\* a header with an array field and a list field, both emptied
RemoveToEmptyWitness ==
  /\ op = "processed"
  /\ CountLines(content.header, EmptiedList) = 1
  /\ CountLines(content.header, EmptiedArray) = 1
  /\ result.header = <<[k |-> "array", text |-> <<>>], OtherLine>>

(***************************************************************************)
(* C10  First matching pattern wins: when the search of two patterns       *)
(* equals the one value of a document, the result is the result of the     *)
(* first of them alone.                                                    *)
(***************************************************************************)
FirstMatchWins ==
  (op = "processed" /\ Len(DocValues(content)) = 1) =>
    LET v == DocValues(content)[1]
        i == FirstMatch(v, patterns)
    IN  (i # 0 /\ \E j \in (i + 1)..Len(patterns) : Equals(patterns[j], v))
        => result = processFileContent(content, <<patterns[i]>>)

(***************************************************************************)
(* FileService: the folder batches.  A batch is suspended at every         *)
(* vault.read and vault.modify; either call completes or rejects.          *)
(***************************************************************************)
MaxFiles == 3

MdFile(i) == [type |-> "file", id |-> i, extension |-> "md"]

\* the folder the batches run on: a markdown file, a file that is not
\* markdown, and a subfolder with the other markdown files
Root ==
  [type |-> "folder",
   children |-> <<MdFile(1), [type |-> "file", id |-> 0, extension |-> "txt"],
                  [type |-> "folder", children |-> [i \in 1..(MaxFiles - 1) |-> MdFile(i + 1)]]>>]

\* the inner function processFolder of getAllMarkdownFiles
RECURSIVE processFolder(_)
processFolder(children) ==
  IF children = <<>> THEN <<>>
  ELSE LET child == Head(children)
       IN  (IF child.type = "file" /\ child.extension = "md" THEN <<child.id>>
            ELSE IF child.type = "folder" THEN processFolder(child.children)
            ELSE <<>>)
           \o processFolder(Tail(children))

\* only the markdown files that are direct children of the folder
getAllMarkdownFilesShallow(folder) ==
  LET IsMd(child) == child.type = "file" /\ child.extension = "md"
      md == SelectSeq(folder.children, IsMd)
  IN  [i \in 1..Len(md) |-> md[i].id]

\* FileService.getAllMarkdownFiles
getAllMarkdownFiles(folder) == processFolder(folder.children)

\* the children of a folder that are in the vault now: a file is there while
\* the vault holds a text for it
RECURSIVE Present(_)
Present(children) ==
  IF children = <<>> THEN <<>>
  ELSE LET child == Head(children)
       IN  (IF child.type = "folder"
            THEN <<[type |-> "folder", children |-> Present(child.children)]>>
            ELSE IF child.id \in DOMAIN vault THEN <<child>>
            ELSE <<>>)
           \o Present(Tail(children))

\* the folder a batch is called with, as it is when the call is made
Folder == [type |-> "folder", children |-> Present(Root.children)]

\* no pattern is filtered out
IsValidPatternAny(p) == TRUE

\* p.search && (p.removeMode || p.replace)
IsValidPattern(p) == p.search # <<>> /\ (p.removeMode \/ p.replace # <<>>)

\* p.from && p.to
IsValidPropertyPattern(p) == p.from # <<>> /\ p.to # <<>>

FolderBatches == {"renameTags", "removeDuplicatesFromFolder", "renameTagProperties"}

\* the transform is given the text of the read before
TransformStale(text) ==
  CASE batch = "renameTags" -> processFileContent(readText, validPatterns)
    [] batch = "renameTagProperties" -> renameTagProperties(readText, validPatterns)
    [] OTHER -> removeDuplicateTagsFromContent(readText)

\* the text the running batch makes of the text it read
Transform(text) ==
  CASE batch = "renameTags" -> processFileContent(text, validPatterns)
    [] batch = "renameTagProperties" -> renameTagProperties(text, validPatterns)
    [] OTHER -> removeDuplicateTagsFromContent(text)

\* processedCount++ placed after the try block in every batch
CountsFailedFileAll(b) == TRUE

\* processedCount++ is reached for a file whose read or write rejected:
\* removeDuplicatesFromFolder counts after removeDuplicatesFromFile has
\* returned false; the other two count inside the try block
CountsFailedFile(b) == b = "removeDuplicatesFromFolder"

\* a rejected read or write ends the call
CatchesFailureNone(b) == FALSE

\* a rejected read or write is caught inside the loop
CatchesFailure(b) == b \in FolderBatches \cup {"removeDuplicatesFromFile"}

\* the write is issued whatever the transformed text is
WriteAlways(text, modifiedContent) == TRUE

\* if (modifiedContent !== content)
WriteNeeded(text, modifiedContent) == modifiedContent # text

\* what the reads log holds for a read that rejected
NoText == [fm |-> FALSE, header |-> <<>>, body |-> "none"]

StartBatch(b, valid, enumerated) ==
  /\ pc = "idle"
  /\ batch' = b
  /\ validPatterns' = valid
  /\ files' = enumerated
  /\ idx' = 1
  /\ pc' = "read"
  /\ processedCount' = 0
  /\ modifiedCount' = 0
  /\ notices' = Append(notices, [type |-> "processing", count |-> Len(enumerated)])
  /\ UNCHANGED <<propertyPatterns, vault, readText, writes, reads, raised, wasModified>>
  /\ UNCHANGED tagVars
  /\ UNCHANGED scanVars

\* no valid pattern: a Notice, and the call returns
NoPatterns(b) ==
  /\ pc = "idle"
  /\ batch' = b
  /\ pc' = "done"
  /\ notices' = Append(notices, [type |-> "noPatterns"])
  /\ UNCHANGED <<propertyPatterns, vault, validPatterns, files, idx, readText,
                 processedCount, modifiedCount, writes, reads, raised, wasModified>>
  /\ UNCHANGED tagVars
  /\ UNCHANGED scanVars

\* FileService.renameTags, up to the loop
StartRenameTags ==
  LET valid == SelectSeq(patterns, IsValidPattern)
  IN  IF Len(valid) = 0 THEN NoPatterns("renameTags")
      ELSE StartBatch("renameTags", valid, getAllMarkdownFiles(Folder))

\* FileService.removeDuplicatesFromFolder, up to the loop
StartRemoveDuplicatesFromFolder ==
  /\ batch = "none"
  /\ StartBatch("removeDuplicatesFromFolder", <<>>, getAllMarkdownFiles(Folder))

\* FileService.removeDuplicatesFromFile(file), up to the read
StartRemoveDuplicatesFromFile ==
  /\ pc = "idle"
  /\ \E file \in DOMAIN vault :
       /\ batch' = "removeDuplicatesFromFile"
       /\ files' = <<file>>
  /\ idx' = 1
  /\ pc' = "read"
  /\ UNCHANGED <<propertyPatterns, vault, validPatterns, readText, processedCount,
                 modifiedCount, notices, writes, reads, raised, wasModified>>
  /\ UNCHANGED tagVars
  /\ UNCHANGED scanVars

\* FileService.renameTagProperties, up to the loop
StartRenameTagProperties ==
  LET valid == SelectSeq(propertyPatterns, IsValidPropertyPattern)
  IN  IF Len(valid) = 0 THEN NoPatterns("renameTagProperties")
      ELSE StartBatch("renameTagProperties", valid, getAllMarkdownFiles(Folder))

\* the end of one iteration of the loop: the counters, the next file
NextFile(written, failed) ==
  /\ modifiedCount' = IF written THEN modifiedCount + 1 ELSE modifiedCount
  /\ processedCount' = IF failed /\ ~CountsFailedFile(batch) THEN processedCount
                       ELSE processedCount + 1
  /\ idx' = idx + 1
  /\ pc' = IF batch \in FolderBatches THEN "read" ELSE "done"
  /\ wasModified' = written

\* a rejected vault.read or vault.modify
Rejected ==
  IF CatchesFailure(batch)
  THEN /\ notices' = Append(notices, [type |-> "error", file |-> files[idx]])
       /\ NextFile(FALSE, TRUE)
       /\ UNCHANGED raised
  ELSE /\ raised' = TRUE
       /\ pc' = "done"
       /\ UNCHANGED <<notices, modifiedCount, processedCount, idx, wasModified>>

\* await this.app.vault.read(file) completes; the text is transformed and
\* compared with the text read
ReadOk ==
  /\ pc = "read"
  /\ idx <= Len(files)
  /\ files[idx] \in DOMAIN vault
  /\ LET text == vault[files[idx]]
         modifiedContent == Transform(text)
     IN  /\ readText' = text
         /\ result' = modifiedContent
         /\ reads' = Append(reads, [file |-> files[idx], ok |-> TRUE, text |-> text])
         /\ IF WriteNeeded(text, modifiedContent)
            THEN /\ pc' = "write"
                 /\ UNCHANGED <<idx, processedCount, modifiedCount, notices, wasModified>>
            ELSE /\ NextFile(FALSE, FALSE)
                 /\ notices' = IF batch \in {"removeDuplicatesFromFolder", "removeDuplicatesFromFile"}
                               THEN Append(notices, [type |-> "noDuplicates", file |-> files[idx]])
                               ELSE notices
  /\ UNCHANGED <<propertyPatterns, vault, batch, validPatterns, files, writes, raised>>
  /\ UNCHANGED <<content, patterns, prev, op>>
  /\ UNCHANGED scanVars

\* await this.app.vault.read(file) rejects
ReadFail ==
  /\ pc = "read"
  /\ idx <= Len(files)
  /\ reads' = Append(reads, [file |-> files[idx], ok |-> FALSE, text |-> NoText])
  /\ Rejected
  /\ UNCHANGED <<propertyPatterns, vault, batch, validPatterns, files, readText, writes>>
  /\ UNCHANGED tagVars
  /\ UNCHANGED scanVars

\* await this.app.vault.modify(file, modifiedContent) completes
WriteOk ==
  /\ pc = "write"
  /\ files[idx] \in DOMAIN vault
  /\ vault' = [vault EXCEPT ![files[idx]] = result]
  /\ writes' = Append(writes, [file |-> files[idx], text |-> result, ok |-> TRUE])
  /\ NextFile(TRUE, FALSE)
  /\ notices' = IF batch \in {"removeDuplicatesFromFolder", "removeDuplicatesFromFile"}
                THEN Append(notices, [type |-> "removed", file |-> files[idx]])
                ELSE notices
  /\ UNCHANGED <<propertyPatterns, batch, validPatterns, files, readText, reads, raised>>
  /\ UNCHANGED tagVars
  /\ UNCHANGED scanVars

\* await this.app.vault.modify(file, modifiedContent) rejects
WriteFail ==
  /\ pc = "write"
  /\ writes' = Append(writes, [file |-> files[idx], text |-> result, ok |-> FALSE])
  /\ Rejected
  /\ UNCHANGED <<propertyPatterns, vault, batch, validPatterns, files, readText, reads>>
  /\ UNCHANGED tagVars
  /\ UNCHANGED scanVars

\* the loop is over: the Notice with the two counters
Finish ==
  /\ pc = "read"
  /\ idx > Len(files)
  /\ batch \in FolderBatches
  /\ pc' = "done"
  /\ notices' = Append(notices, [type |-> "completed", file |-> 0,
                                 processed |-> processedCount, modified |-> modifiedCount])
  /\ UNCHANGED <<propertyPatterns, vault, batch, validPatterns, files, idx, readText,
                 processedCount, modifiedCount, writes, reads, raised, wasModified>>
  /\ UNCHANGED tagVars
  /\ UNCHANGED scanVars

\* the documents of the vault the batches run on: a field with a duplicate
\* that every batch changes, one that no batch changes, a text with no header
BatchDocs ==
  {[fm |-> TRUE, header |-> <<OtherLine, InputArray(<<sA, sA>>)>>, body |-> "body"],
   [fm |-> TRUE, header |-> <<InputArray(<<Quote(sB)>>)>>, body |-> "body"],
   [fm |-> FALSE, header |-> <<InputArray(<<sA, sA>>)>>, body |-> "body"]}

BatchPatternLists ==
  {<<[search |-> sA, replace |-> <<>>, removeMode |-> FALSE]>>,
   <<[search |-> sA, replace |-> sB, removeMode |-> FALSE]>>,
   <<[search |-> <<>>, replace |-> sB, removeMode |-> FALSE],
     [search |-> sA, replace |-> <<>>, removeMode |-> TRUE]>>,
   <<[search |-> sB, replace |-> <<>>, removeMode |-> FALSE],
     [search |-> sA, replace |-> sB, removeMode |-> FALSE]>>}

PropertyPatternLists ==
  {<<[from |-> <<"t">>, to |-> <<>>]>>,
   <<[from |-> <<>>, to |-> <<"u">>], [from |-> <<"t">>, to |-> <<"u">>]>>}

InitBatch ==
  /\ content = [fm |-> FALSE, header |-> <<>>, body |-> "body"]
  /\ result = content
  /\ prev = content
  /\ op = "batch"
  /\ patterns \in BatchPatternLists
  /\ propertyPatterns \in PropertyPatternLists
  /\ vault \in {v \in [0..MaxFiles -> BatchDocs] : ~v[0].fm}
  /\ batch = "none"
  /\ validPatterns = <<>>
  /\ files = <<>>
  /\ idx = 0
  /\ pc = "idle"
  /\ readText = content
  /\ processedCount = 0
  /\ modifiedCount = 0
  /\ notices = <<>>
  /\ writes = <<>>
  /\ reads = <<>>
  /\ raised = FALSE
  /\ wasModified = FALSE
  /\ allTags = <<>>
  /\ batchResults = <<>>

NextBatch ==
  \/ StartRenameTags
  \/ StartRemoveDuplicatesFromFolder
  \/ StartRenameTagProperties
  \/ ReadOk
  \/ ReadFail
  \/ WriteOk
  \/ WriteFail
  \/ Finish

SpecBatch == InitBatch /\ [][NextBatch]_vars

(***************************************************************************)
(* removeDuplicatesFromFile on one document                                *)
(***************************************************************************)
MaxDupTags == 5

sC == <<"c">>

DupValues == {sA, sB, sC}

\* tags fields of up to MaxDupTags values, with and without repetitions
DupFields ==
  {InputArray(vs) : vs \in SeqsUpTo(DupValues, 0, MaxDupTags)}
  \cup {InputList(vs) : vs \in SeqsUpTo(DupValues, 1, MaxDupTags)}

\* headers where a value is written with and without quotes and spaces, and
\* headers with two fields
DupMixed ==
  {<<InputArray(<<sA, Quote(sA), sB>>), OtherLine>>,
   <<InputArray(<<Quote(sB), sA, <<" ">> \o sB>>), OtherLine>>,
   <<InputList(<<Quote(sA), sB, sA>>), OtherLine>>,
   <<InputList(<<sA, sB, sA>>)>>,
   <<InputList(<<sA, sB>>)>>,
   <<InputArray(<<sA, <<>>, sB>>)>>,
   <<InputScalar(sA), InputScalar(sA)>>}
  \cup {<<InputArray(<<sA, v>>), InputList(<<sB, w>>)>> : v, w \in {sA, sB}}

DupDocs ==
  {[fm |-> TRUE, header |-> h, body |-> "body"] :
     h \in {<<f, OtherLine>> : f \in DupFields} \cup DupMixed}
  \cup {[fm |-> FALSE, header |-> <<InputArray(<<sA, sA>>)>>, body |-> "body"]}

InitDedupe ==
  /\ content = [fm |-> FALSE, header |-> <<>>, body |-> "body"]
  /\ result = content
  /\ prev = content
  /\ op = "batch"
  /\ patterns = <<>>
  /\ propertyPatterns = <<>>
  /\ vault \in [{1} -> DupDocs]
  /\ batch = "none"
  /\ validPatterns = <<>>
  /\ files = <<>>
  /\ idx = 0
  /\ pc = "idle"
  /\ readText = content
  /\ processedCount = 0
  /\ modifiedCount = 0
  /\ notices = <<>>
  /\ writes = <<>>
  /\ reads = <<>>
  /\ raised = FALSE
  /\ wasModified = FALSE
  /\ allTags = <<>>
  /\ batchResults = <<>>

NextDedupe ==
  \/ StartRemoveDuplicatesFromFile
  \/ ReadOk
  \/ ReadFail
  \/ WriteOk
  \/ WriteFail

SpecDedupe == InitDedupe /\ [][NextDedupe]_vars

(***************************************************************************)
(* Vocabulary of the batch properties                                      *)
(***************************************************************************)
\* a folder batch has entered its loop
Looping == batch \in FolderBatches /\ idx > 0

\* the iteration of files[i] is over
Settled(i) == i < idx /\ i <= Len(reads)

WriteIssued(file) == \E w \in 1..Len(writes) : writes[w].file = file

WriteFailed(file) == \E w \in 1..Len(writes) : writes[w].file = file /\ ~writes[w].ok

OkWrites == {w \in 1..Len(writes) : writes[w].ok}

\* the positions in files of the files whose read or write rejected
FailedFiles ==
  {i \in 1..Len(reads) : Settled(i) /\ (~reads[i].ok \/ WriteFailed(files[i]))}

ErrorNotice(file) ==
  \E n \in 1..Len(notices) : notices[n].type = "error" /\ notices[n].file = file

Completed(n) == n \in 1..Len(notices) /\ notices[n].type = "completed"

(***************************************************************************)
(* C2  Batch isolation: in every folder batch a rejected read or write of  *)
(* one file is caught and reported by a Notice, the call never raises,     *)
(* the files are read one after the other in the order of enumeration up   *)
(* to the last one whatever happened to the files before, a file whose     *)
(* transformed text differs is written, and what a completed write wrote   *)
(* is still the text of the file.                                          *)
(***************************************************************************)
BatchIsolation ==
  Looping =>
    /\ ~raised
    /\ Len(reads) = (IF pc = "write" THEN idx ELSE idx - 1)
    /\ \A i \in 1..Len(reads) : reads[i].file = files[i]
    /\ pc = "done" => Len(reads) = Len(files)
    /\ \A i \in 1..Len(reads) :
         Settled(i) =>
           /\ (reads[i].ok /\ Transform(reads[i].text) # reads[i].text)
                => WriteIssued(files[i])
           /\ i \in FailedFiles => ErrorNotice(files[i])
    /\ \A w \in OkWrites : vault[writes[w].file] = writes[w].text

\* the first file was written, the read of the second rejected, the third
\* was read and written all the same and the batch came to its end
BatchIsolationWitness ==
  /\ batch \in FolderBatches
  /\ pc = "done"
  /\ Len(files) >= 3
  /\ ~reads[2].ok
  /\ ErrorNotice(files[2])
  /\ Len(writes) = 2
  /\ writes[1].file = files[1] /\ writes[1].ok
  /\ writes[2].file = files[3] /\ writes[2].ok
  /\ vault[files[1]] = writes[1].text
  /\ \E n \in 1..Len(notices) : Completed(n)

(***************************************************************************)
(* C3  Write only on change, and modified counts writes: in a folder       *)
(* batch vault.modify is called for a file if and only if the file was     *)
(* read and the transformed text differs from the text read, and the       *)
(* modified count of the final Notice is the number of writes that         *)
(* completed, also when reads or writes of other files rejected.           *)
(***************************************************************************)
WriteOnlyOnChange ==
  Looping =>
    /\ \A i \in 1..Len(reads) :
         Settled(i) =>
           (WriteIssued(files[i])
              <=> (reads[i].ok /\ Transform(reads[i].text) # reads[i].text))
    /\ modifiedCount = Cardinality(OkWrites)
    /\ \A n \in 1..Len(notices) :
         Completed(n) => notices[n].modified = Cardinality(OkWrites)

\* a batch that left one file alone, had one write rejected and one write
\* completed, and reported one modified file
WriteOnlyOnChangeWitness ==
  /\ batch \in FolderBatches
  /\ pc = "done"
  /\ \E i \in 1..Len(reads) : reads[i].ok /\ ~WriteIssued(files[i])
  /\ \E i \in 1..Len(reads) : WriteFailed(files[i])
  /\ Cardinality(OkWrites) = 1
  /\ \E n \in 1..Len(notices) : Completed(n) /\ notices[n].modified = 1

(***************************************************************************)
(* C4  The processed count covers every enumerated file: the processed     *)
(* count of the final Notice of a folder batch is the number of files      *)
(* enumerated, files whose read or write rejected included, in renameTags, *)
(* removeDuplicatesFromFolder and renameTagProperties alike.               *)
(***************************************************************************)
ProcessedCountsEveryFile ==
  Looping =>
    \A n \in 1..Len(notices) : Completed(n) => notices[n].processed = Len(files)

\* C4 as the code has it: removeDuplicatesFromFolder counts every enumerated
\* file; renameTags and renameTagProperties count the enumerated files
\* whose read and write (if any) completed
ProcessedCountsPerBatch ==
  Looping =>
    \A n \in 1..Len(notices) :
      Completed(n) =>
        notices[n].processed =
          (IF batch = "removeDuplicatesFromFolder" THEN Len(files)
           ELSE Len(files) - Cardinality(FailedFiles))

\* renameTags came to its end with a rejected read and a rejected write and
\* reported all files but these two
ProcessedCountsPerBatchWitness ==
  /\ batch = "renameTags"
  /\ pc = "done"
  /\ \E i \in 1..Len(reads) : ~reads[i].ok
  /\ \E i \in 1..Len(reads) : WriteFailed(files[i])
  /\ \E n \in 1..Len(notices) :
       Completed(n) /\ notices[n].processed = Len(files) - 2

(***************************************************************************)
(* Vocabulary of the properties of removeDuplicateTagsFromContent          *)
(***************************************************************************)
IsTagsField(line) == line.k \in {"array", "list"}

\* the array-shape and list-shape tags fields of a document, in text order
TagsFields(doc) == IF doc.fm THEN SelectSeq(doc.header, IsTagsField) ELSE <<>>

NoRepeat(seq) == \A i, j \in 1..Len(seq) : seq[i] = seq[j] => i = j

FirstIndex(x, seq) == CHOOSE i \in 1..Len(seq) : seq[i] = x /\ \A h \in 1..(i - 1) : seq[h] # x

\* out holds each value of in once, in the order of the first occurrences
FirstOccurrences(out, in) ==
  /\ NoRepeat(out)
  /\ {out[i] : i \in 1..Len(out)} = {in[i] : i \in 1..Len(in)}
  /\ \A i, j \in 1..Len(out) : i < j => FirstIndex(out[i], in) < FirstIndex(out[j], in)

\* removeDuplicatesFromFile has read the file and transformed the text
Deduped ==
  /\ batch = "removeDuplicatesFromFile"
  /\ pc \in {"write", "done"}
  /\ Len(reads) = 1
  /\ reads[1].ok

(***************************************************************************)
(* C7  Duplicate collapse keeps first occurrences in order: for every      *)
(* array or list tags field, removeDuplicateTagsFromContent leaves a field *)
(* of the same shape whose values (trimmed, unquoted) are the distinct     *)
(* values of the input in the order of their first occurrence; no value is *)
(* lost, none appears twice.                                               *)
(***************************************************************************)
DedupeKeepsFirstOccurrences ==
  Deduped =>
    LET in == TagsFields(readText)
        out == TagsFields(result)
    IN  /\ Len(out) = Len(in)
        /\ \A k \in 1..Len(in) :
             /\ out[k].k = in[k].k
             /\ FirstOccurrences(FieldValues(out[k]), FieldValues(in[k]))

\* [a, b, a, c, b] became [a, b, c]
DedupeKeepsFirstOccurrencesWitness ==
  /\ Deduped
  /\ Len(TagsFields(readText)) = 1
  /\ TagsFields(readText)[1].k = "array"
  /\ FieldValues(TagsFields(readText)[1]) = <<sA, sB, sA, sC, sB>>
  /\ FieldValues(TagsFields(result)[1]) = <<sA, sB, sC>>

(***************************************************************************)
(* C8  Dedupe is a no-op on duplicate-free input: a tags field with no     *)
(* repeated value is returned as it was written (no quotes added, an empty *)
(* array stays empty), and when no tags field of the document has a        *)
(* repeated value the document is returned identical, so that              *)
(* removeDuplicatesFromFile calls no vault.modify and returns false.       *)
(***************************************************************************)
DedupeNoOp ==
  Deduped =>
    LET in == TagsFields(readText)
        out == TagsFields(result)
    IN  /\ \A k \in 1..Len(in) :
             NoRepeat(FieldValues(in[k])) => (k <= Len(out) /\ out[k] = in[k])
        /\ (\A k \in 1..Len(in) : NoRepeat(FieldValues(in[k])))
             => /\ result = readText
                /\ writes = <<>>
                /\ pc = "done"
                /\ ~wasModified

\* a document with an unquoted array field and an unquoted list field, both
\* without a repeated value, was read and the call returned false without a
\* write
DedupeNoOpWitness ==
  /\ Deduped
  /\ Len(TagsFields(readText)) = 2
  /\ \A k \in 1..2 :
       /\ NoRepeat(FieldValues(TagsFields(readText)[k]))
       /\ Len(FieldValues(TagsFields(readText)[k])) = 2
  /\ result = readText
  /\ writes = <<>>
  /\ pc = "done"
  /\ ~wasModified
  /\ vault[1] = readText

(***************************************************************************)
(* C11  Frame of the tag operations: processFileContent leaves everything  *)
(* outside the tags/tag fields as it was: the body is identical and the    *)
(* other header lines are there with the same text in the same order.      *)
(***************************************************************************)
IsOther(line) == line.k = "other"

\* the header lines of a document that are neither blank nor a tags/tag field
OtherLines(doc) == IF doc.fm THEN SelectSeq(doc.header, IsOther) ELSE <<>>

TagOpsFrame ==
  Processed => (result.body = prev.body /\ OtherLines(result) = OtherLines(prev))

(***************************************************************************)
(* The text of a document as the operations receive it: a sequence of      *)
(* lines, delimiter lines among them.  content.match(FRONTMATTER) finds    *)
(* the header in it.                                                       *)
(***************************************************************************)
sDelim == <<"-", "-", "-">>

DelimLine == [k |-> "other", text |-> sDelim]

StartsWith(text, prefix) ==
  Len(text) >= Len(prefix) /\ SubSeq(text, 1, Len(prefix)) = prefix

\* the text of the line starts with "---": where "\n---" of FRONTMATTER matches
ClosesHeader(line) == line.k = "other" /\ StartsWith(line.text, sDelim)

\* /^---\n(.*?)\n---/s : the text starts with "---\n" and the lazy group ends
\* before the first later line that starts with "---"; 0 when nothing matches
FrontmatterEnd(text) ==
  IF /\ Len(text) >= 3
     /\ text[1] = DelimLine
     /\ \E j \in 3..Len(text) : ClosesHeader(text[j])
  THEN CHOOSE j \in 3..Len(text) :
         /\ ClosesHeader(text[j])
         /\ \A h \in 3..(j - 1) : ~ClosesHeader(text[h])
  ELSE 0

\* content.match(REGEX_PATTERNS.FRONTMATTER): the header is group 1, the body
\* is what follows the match
FrontmatterMatch(text) ==
  LET j == FrontmatterEnd(text)
  IN  IF j = 0 THEN [fm |-> FALSE, header |-> <<>>, body |-> text]
      ELSE [fm |-> TRUE,
            header |-> SubSeq(text, 2, j - 1),
            body |-> [rest |-> SubSeq(text[j].text, 4, Len(text[j].text)),
                      lines |-> SubSeq(text, j + 1, Len(text))]]

\* the text of a document found by FrontmatterMatch
TextOf(doc) ==
  IF doc.fm
  THEN <<DelimLine>> \o doc.header
       \o <<[k |-> "other", text |-> sDelim \o doc.body.rest]>> \o doc.body.lines
  ELSE doc.body

\* the pushes of one array line in extractTagsFromContent
ExtractArray(line) ==
  LET Clean(tag) == extractDisplayText(StripQuotes(Trim(tag)))
  IN  SelectSeq(MapSeq(Clean, Split(line.text, ",")), NonEmpty)

\* the pushes of one list block in extractTagsFromContent
ExtractList(line) ==
  LET Clean(item) == extractDisplayText(StripQuotes(Trim(DropDash(item))))
  IN  SelectSeq(MapSeq(Clean, line.items), NonEmpty)

\* the push of one tag: line in extractTagsFromContent
ExtractScalar(line) ==
  SelectSeq(<<extractDisplayText(StripQuotes(Trim(line.text)))>>, NonEmpty)

\* the pushes of one of the three passes of extractTagsFromContent
RECURSIVE ExtractPass(_, _)
ExtractPass(header, kind) ==
  IF header = <<>> THEN <<>>
  ELSE LET line == Head(header)
       IN  (IF line.k # kind THEN <<>>
            ELSE CASE kind = "array" -> ExtractArray(line)
                   [] kind = "list" -> ExtractList(line)
                   [] OTHER -> ExtractScalar(line))
           \o ExtractPass(Tail(header), kind)

\* TagProcessor.extractTagsFromContent
extractTagsFromContent(doc) ==
  IF ~doc.fm THEN <<>>
  ELSE ExtractPass(doc.header, "array") \o ExtractPass(doc.header, "list")
       \o ExtractPass(doc.header, "scalar")

(***************************************************************************)
(* The four operations applied to the text of one document                 *)
(***************************************************************************)
LongDelimLine == [k |-> "other", text |-> <<"-", "-", "-", "-">>]

BodyLine == [k |-> "other", text |-> <<"x">>]

TextStarts == {<<DelimLine>>, <<>>, <<BodyLine>>, <<LongDelimLine>>, <<BodyLine, DelimLine>>}

TextFields ==
  {<<InputArray(<<sA, sA>>), OtherLine>>,
   <<InputList(<<sA, sA>>)>>,
   <<InputScalar(sA), OtherLine>>,
   <<OtherLine>>,
   <<OtherLine, DollarLine>>,
   <<>>}

TextEnds == {<<DelimLine>>, <<>>, <<LongDelimLine>>}

\* texts with and without a header, with lines that look like tags fields
Texts ==
  {a \o f \o z \o <<BodyLine>> : a \in TextStarts, f \in TextFields, z \in TextEnds}

TextPatternLists == {<<>>, <<[search |-> sA, replace |-> sB, removeMode |-> FALSE]>>}

TextPropertyPatternLists == {<<>>, <<[from |-> <<"t">>, to |-> <<"u">>]>>}

InitText ==
  /\ content \in Texts
  /\ patterns \in TextPatternLists
  /\ propertyPatterns \in TextPropertyPatternLists
  /\ result = content
  /\ prev = content
  /\ op = "init"
  /\ vault = <<>>
  /\ batch = "none"
  /\ validPatterns = <<>>
  /\ files = <<>>
  /\ idx = 0
  /\ pc = "idle"
  /\ readText = <<>>
  /\ processedCount = 0
  /\ modifiedCount = 0
  /\ notices = <<>>
  /\ writes = <<>>
  /\ reads = <<>>
  /\ raised = FALSE
  /\ wasModified = FALSE
  /\ allTags = <<>>
  /\ batchResults = <<>>

TextFrame ==
  UNCHANGED <<content, patterns, propertyPatterns, prev, vault, batch, validPatterns,
              files, idx, pc, readText, processedCount, modifiedCount, notices,
              writes, reads, raised, wasModified, allTags, batchResults>>

\* result = processFileContent(content, patterns)
ProcessText ==
  /\ op = "init"
  /\ result' = TextOf(processFileContent(FrontmatterMatch(content), patterns))
  /\ op' = "processFileContent"
  /\ TextFrame

\* result = removeDuplicateTagsFromContent(content)
DedupeText ==
  /\ op = "init"
  /\ result' = TextOf(removeDuplicateTagsFromContent(FrontmatterMatch(content)))
  /\ op' = "removeDuplicateTagsFromContent"
  /\ TextFrame

\* result = renameTagProperties(content, propertyPatterns)
RenameText ==
  /\ op = "init"
  /\ result' = TextOf(renameTagProperties(FrontmatterMatch(content), propertyPatterns))
  /\ op' = "renameTagProperties"
  /\ TextFrame

\* result = extractTagsFromContent(content)
ExtractText ==
  /\ op = "init"
  /\ result' = extractTagsFromContent(FrontmatterMatch(content))
  /\ op' = "extractTagsFromContent"
  /\ TextFrame

NextText == ProcessText \/ DedupeText \/ RenameText \/ ExtractText

SpecText == InitText /\ [][NextText]_vars

(***************************************************************************)
(* C12  No header is a no-op: for a text that does not start with a line   *)
(* --- closed by a later line ---, processFileContent,                     *)
(* removeDuplicateTagsFromContent and renameTagProperties return the text  *)
(* unchanged and extractTagsFromContent returns the empty sequence, also   *)
(* when the text has lines that look like tags fields.                     *)
(***************************************************************************)
\* the text starts with a line --- and a later line is --- as well
HasHeader(text) ==
  /\ Len(text) >= 2
  /\ text[1] = DelimLine
  /\ \E j \in 2..Len(text) : text[j] = DelimLine

NoHeaderNoOp ==
  (op # "init" /\ ~HasHeader(content)) =>
    IF op = "extractTagsFromContent" THEN result = <<>> ELSE result = content

(***************************************************************************)
(* Export and import of the settings.  A JavaScript value is a record with *)
(* its type t and its value v; the members of an object are a function     *)
(* from the member names, a name outside its domain reads as undefined.    *)
(* A JSON text is the value it denotes, or Malformed.                      *)
(***************************************************************************)
Undefined == [t |-> "undefined"]

Null == [t |-> "null"]

Str(s) == [t |-> "string", v |-> s]

Num(n) == [t |-> "number", v |-> n]

Bool(b) == [t |-> "boolean", v |-> b]

Arr(elems) == [t |-> "array", v |-> elems]

Obj(members) == [t |-> "object", v |-> members]

Malformed == [t |-> "malformed"]

\* typeof value
TypeOf(value) == IF value.t \in {"null", "array"} THEN "object" ELSE value.t

\* Array.isArray(value)
IsArrayValue(value) == value.t = "array"

\* !!value
Truthy(value) ==
  CASE value.t \in {"undefined", "null"} -> FALSE
    [] value.t = "boolean" -> value.v
    [] value.t = "number" -> value.v # 0
    [] value.t = "string" -> value.v # <<>>
    [] OTHER -> TRUE

\* value.name
Get(value, name) ==
  IF value.t = "object" /\ name \in DOMAIN value.v THEN value.v[name] ELSE Undefined

\* the elements of an array value (none for any other value)
Elements(value) == IF value.t = "array" THEN value.v ELSE <<>>

\* the loop over data.patterns in validateImportData, from index i on
RECURSIVE ValidatePatterns(_, _)
ValidatePatterns(elems, i) ==
  IF i > Len(elems) THEN [valid |-> TRUE]
  ELSE LET pattern == elems[i]
       IN  IF ~Truthy(pattern) \/ TypeOf(pattern) # "object"
           THEN [valid |-> FALSE, error |-> "Pattern is invalid", index |-> i]
           ELSE IF \/ TypeOf(Get(pattern, "search")) # "string"
                   \/ TypeOf(Get(pattern, "replace")) # "string"
           THEN [valid |-> FALSE, error |-> "Pattern must have search and replace strings",
                 index |-> i]
           ELSE IF /\ Get(pattern, "removeMode").t # "undefined"
                   /\ TypeOf(Get(pattern, "removeMode")) # "boolean"
           THEN [valid |-> FALSE, error |-> "Pattern removeMode must be boolean", index |-> i]
           ELSE ValidatePatterns(elems, i + 1)

\* the loop over data.propertyPatterns in validateImportData, from index i on
RECURSIVE ValidatePropertyPatterns(_, _)
ValidatePropertyPatterns(elems, i) ==
  IF i > Len(elems) THEN [valid |-> TRUE]
  ELSE LET pattern == elems[i]
       IN  IF ~Truthy(pattern) \/ TypeOf(pattern) # "object"
           THEN [valid |-> FALSE, error |-> "Property pattern is invalid", index |-> i]
           ELSE IF \/ TypeOf(Get(pattern, "from")) # "string"
                   \/ TypeOf(Get(pattern, "to")) # "string"
           THEN [valid |-> FALSE, error |-> "Property pattern must have from and to strings",
                 index |-> i]
           ELSE ValidatePropertyPatterns(elems, i + 1)

\* validateImportData that accepts everything
validateImportDataLax(data) == [valid |-> TRUE]

\* TagRenamerPlugin.validateImportData
validateImportData(data) ==
  IF ~Truthy(data) \/ TypeOf(data) # "object"
  THEN [valid |-> FALSE, error |-> "Invalid JSON format", index |-> 0]
  ELSE IF ~Truthy(Get(data, "patterns")) \/ ~IsArrayValue(Get(data, "patterns"))
  THEN [valid |-> FALSE, error |-> "Missing or invalid patterns array", index |-> 0]
  ELSE LET r == ValidatePatterns(Elements(Get(data, "patterns")), 1)
           pp == Get(data, "propertyPatterns")
       IN  IF ~r.valid THEN r
           ELSE IF ~Truthy(pp) THEN [valid |-> TRUE]
           ELSE IF ~IsArrayValue(pp)
           THEN [valid |-> FALSE, error |-> "Property patterns must be an array", index |-> 0]
           ELSE ValidatePropertyPatterns(Elements(pp), 1)

\* JSON.parse(jsonString) throws
ParseThrows(jsonString) == jsonString = Malformed

\* what a member of an imported pattern holds: the string or boolean read
Raw(value) == IF value.t \in {"string", "boolean", "number"} THEN value.v ELSE value

\* the imported pattern as it was read, removeMode copied as it is
ImportedPatternNoDefault(pattern) ==
  IF Get(pattern, "removeMode").t = "undefined"
  THEN [search |-> Raw(Get(pattern, "search")), replace |-> Raw(Get(pattern, "replace"))]
  ELSE [search |-> Raw(Get(pattern, "search")), replace |-> Raw(Get(pattern, "replace")),
        removeMode |-> Raw(Get(pattern, "removeMode"))]

\* { search: pattern.search, replace: pattern.replace,
\*   removeMode: pattern.removeMode || false }
ImportedPattern(pattern) ==
  [search |-> Raw(Get(pattern, "search")),
   replace |-> Raw(Get(pattern, "replace")),
   removeMode |-> IF Truthy(Get(pattern, "removeMode"))
                  THEN Raw(Get(pattern, "removeMode")) ELSE FALSE]

\* { from: pattern.from, to: pattern.to }
ImportedPropertyPattern(pattern) ==
  [from |-> Raw(Get(pattern, "from")), to |-> Raw(Get(pattern, "to"))]

\* merge mode that drops the list it is given
PushAllReplace(list, added) == added

\* list.push(...added)
PushAll(list, added) == list \o added

\* TagRenamerPlugin.importPatternsFromJson on the settings given: the
\* ImportResult and the two lists of the settings after the call
importPatternsFromJson(jsonString, mergeMode, renamePatterns, propertyRenamePatterns) ==
  LET unchanged(error) ==
        [result |-> [success |-> FALSE, error |-> error],
         renamePatterns |-> renamePatterns,
         propertyRenamePatterns |-> propertyRenamePatterns]
  IN  IF ParseThrows(jsonString) THEN unchanged("Invalid JSON format: SyntaxError")
      ELSE LET data == jsonString
               validation == validateImportData(data)
               importedPatterns == MapSeq(ImportedPattern, Elements(Get(data, "patterns")))
               importedPropertyPatterns ==
                 IF Truthy(Get(data, "propertyPatterns"))
                 THEN MapSeq(ImportedPropertyPattern, Elements(Get(data, "propertyPatterns")))
                 ELSE <<>>
           IN  IF ~validation.valid THEN unchanged(validation.error)
               ELSE [result |-> [success |-> TRUE,
                                 imported |-> Len(importedPatterns)
                                              + Len(importedPropertyPatterns)],
                     renamePatterns |->
                       IF mergeMode THEN PushAll(renamePatterns, importedPatterns)
                       ELSE importedPatterns,
                     propertyRenamePatterns |->
                       IF mergeMode
                       THEN (IF Len(importedPropertyPatterns) > 0
                             THEN PushAll(propertyRenamePatterns, importedPropertyPatterns)
                             ELSE propertyRenamePatterns)
                       ELSE importedPropertyPatterns]

\* JSON.stringify of a stored pattern: the members it has
StringifyPattern(pattern) ==
  Obj([name \in DOMAIN pattern |->
         IF name = "removeMode" THEN Bool(pattern[name]) ELSE Str(pattern[name])])

\* JSON.stringify of a stored property pattern
StringifyPropertyPattern(pattern) ==
  Obj([name \in DOMAIN pattern |-> Str(pattern[name])])

\* TagRenamerPlugin.exportPatternsToJson
exportPatternsToJson(renamePatterns, propertyRenamePatterns) ==
  Obj([name \in {"version", "exportDate", "pluginName", "patterns", "propertyPatterns"} |->
         CASE name = "version" -> Str(<<"1", ".", "0">>)
           [] name = "exportDate" -> Str(<<"d">>)
           [] name = "pluginName" -> Str(<<"T">>)
           [] name = "patterns" -> Arr(MapSeq(StringifyPattern, renamePatterns))
           [] OTHER -> Arr(MapSeq(StringifyPropertyPattern, propertyRenamePatterns))])

(***************************************************************************)
(* Import and export on the settings of a plugin.  In this specification   *)
(* patterns is settings.renamePatterns, propertyPatterns is                *)
(* settings.propertyRenamePatterns, content the JSON text, result the      *)
(* ImportResult and prev the two lists before the call.                    *)
(***************************************************************************)
MaxImport == 2

MaxStored == 2

\* entries of a patterns array: two valid ones (the second without removeMode)
\* and invalid ones
PatternEntries ==
  {Obj([search |-> Str(sA), replace |-> Str(sB), removeMode |-> Bool(TRUE)]),
   Obj([search |-> Str(sB), replace |-> Str(sAB)]),
   Obj([search |-> Num(1), replace |-> Str(sB)]),
   Obj([search |-> Str(sA)]),
   Obj([search |-> Str(sA), replace |-> Str(sB), removeMode |-> Str(sA)]),
   Null}

PropertyArrays ==
  {Undefined,
   Num(0),
   Str(sA),
   Arr(<<>>),
   Arr(<<Obj([from |-> Str(<<"t">>), to |-> Str(<<"u">>)])>>),
   Arr(<<Obj([from |-> Str(<<"t">>), to |-> Str(<<"u">>)]), Obj([from |-> Str(<<"t">>)])>>)}

\* an object with the patterns array and, unless undefined, propertyPatterns
ImportData(entries, pp) ==
  IF pp.t = "undefined" THEN Obj([patterns |-> Arr(entries)])
  ELSE Obj([patterns |-> Arr(entries), propertyPatterns |-> pp])

JsonTexts ==
  {Malformed, Null, Str(sA), Arr(<<>>), Obj([version |-> Str(sA)]),
   Obj([patterns |-> Str(sA)])}
  \cup {ImportData(entries, pp) :
          entries \in SeqsUpTo(PatternEntries, 0, MaxImport), pp \in PropertyArrays}

\* the patterns a plugin has stored: with removeMode and, from old data, without
StoredPatterns ==
  {[search |-> sA, replace |-> sB, removeMode |-> FALSE],
   [search |-> sB, replace |-> <<>>, removeMode |-> TRUE],
   [search |-> sB, replace |-> sAB]}

StoredPropertyPatterns == {<<>>, <<[from |-> <<"t">>, to |-> <<"x">>]>>}

InitImport ==
  /\ content \in JsonTexts
  /\ patterns \in SeqsUpTo(StoredPatterns, 0, MaxStored)
  /\ propertyPatterns \in StoredPropertyPatterns
  /\ result = [success |-> FALSE, error |-> "none"]
  /\ prev = [renamePatterns |-> patterns, propertyRenamePatterns |-> propertyPatterns]
  /\ op = "init"
  /\ vault = <<>>
  /\ batch = "none"
  /\ validPatterns = <<>>
  /\ files = <<>>
  /\ idx = 0
  /\ pc = "idle"
  /\ readText = <<>>
  /\ processedCount = 0
  /\ modifiedCount = 0
  /\ notices = <<>>
  /\ writes = <<>>
  /\ reads = <<>>
  /\ raised = FALSE
  /\ wasModified = FALSE
  /\ allTags = <<>>
  /\ batchResults = <<>>

ImportFrame ==
  UNCHANGED <<vault, batch, validPatterns, files, idx, pc, readText, processedCount,
              modifiedCount, notices, writes, reads, raised, wasModified,
              allTags, batchResults>>

\* this.importPatternsFromJson(content, mergeMode)
Import ==
  /\ op = "init"
  /\ \E mergeMode \in BOOLEAN :
       LET r == importPatternsFromJson(content, mergeMode, patterns, propertyPatterns)
       IN  /\ result' = r.result
           /\ patterns' = r.renamePatterns
           /\ propertyPatterns' = r.propertyRenamePatterns
           /\ op' = IF mergeMode THEN "merged" ELSE "replaced"
  /\ prev' = [renamePatterns |-> patterns, propertyRenamePatterns |-> propertyPatterns]
  /\ UNCHANGED content
  /\ ImportFrame

\* content = this.exportPatternsToJson()
Export ==
  /\ op = "init"
  /\ content' = exportPatternsToJson(patterns, propertyPatterns)
  /\ prev' = [renamePatterns |-> patterns, propertyRenamePatterns |-> propertyPatterns]
  /\ op' = "exported"
  /\ UNCHANGED <<patterns, propertyPatterns, result>>
  /\ ImportFrame

\* the exported text is imported in replace mode by a plugin in any state;
\* prev keeps the lists of the plugin that exported
Reimport ==
  /\ op = "exported"
  /\ \E renamePatterns \in SeqsUpTo(StoredPatterns, 0, MaxStored),
        propertyRenamePatterns \in StoredPropertyPatterns :
       LET r == importPatternsFromJson(content, FALSE, renamePatterns, propertyRenamePatterns)
       IN  /\ result' = r.result
           /\ patterns' = r.renamePatterns
           /\ propertyPatterns' = r.propertyRenamePatterns
  /\ op' = "reimported"
  /\ UNCHANGED <<content, prev>>
  /\ ImportFrame

NextImport == Import \/ Export \/ Reimport

SpecImport == InitImport /\ [][NextImport]_vars

(***************************************************************************)
(* Vocabulary of the import properties                                     *)
(***************************************************************************)
IsString(value) == value.t = "string"

\* an entry of a patterns array that is no pattern
BadPatternEntry(entry) ==
  \/ entry.t # "object"
  \/ ~IsString(Get(entry, "search"))
  \/ ~IsString(Get(entry, "replace"))
  \/ Get(entry, "removeMode").t \notin {"undefined", "boolean"}

\* an entry of a propertyPatterns array that is no property pattern
BadPropertyEntry(entry) ==
  \/ entry.t # "object"
  \/ ~IsString(Get(entry, "from"))
  \/ ~IsString(Get(entry, "to"))

\* the text is no JSON, or what it denotes is no valid import data
InvalidImport(text) ==
  \/ text = Malformed
  \/ text.t # "object"
  \/ Get(text, "patterns").t # "array"
  \/ \E i \in 1..Len(Elements(Get(text, "patterns"))) :
       BadPatternEntry(Get(text, "patterns").v[i])
  \/ \E i \in 1..Len(Elements(Get(text, "propertyPatterns"))) :
       BadPropertyEntry(Get(text, "propertyPatterns").v[i])

\* the patterns of a valid text, in the order of the file
FilePatterns(text) ==
  LET entries == Get(text, "patterns").v
  IN  [i \in 1..Len(entries) |->
         [search |-> entries[i].v.search.v,
          replace |-> entries[i].v.replace.v,
          removeMode |-> IF "removeMode" \in DOMAIN entries[i].v
                         THEN entries[i].v.removeMode.v ELSE FALSE]]

\* the property patterns of a valid text, in the order of the file
FilePropertyPatterns(text) ==
  LET entries == Elements(Get(text, "propertyPatterns"))
  IN  [i \in 1..Len(entries) |-> [from |-> entries[i].v.from.v, to |-> entries[i].v.to.v]]

Settings == [renamePatterns |-> patterns, propertyRenamePatterns |-> propertyPatterns]

(***************************************************************************)
(* C13  Import is all-or-nothing: for a text that is no JSON or that is no *)
(* valid import data, importPatternsFromJson returns success = false with  *)
(* an error message and leaves settings.renamePatterns and                 *)
(* settings.propertyRenamePatterns as they were, in merge and in replace   *)
(* mode, whatever number of valid patterns precedes the invalid one; and   *)
(* no call that returns success = false changes them.                      *)
(***************************************************************************)
ImportAllOrNothing ==
  op \in {"merged", "replaced"} =>
    /\ InvalidImport(content) => (~result.success /\ result.error # "")
    /\ ~result.success => Settings = prev

\* a merge of a text whose second pattern is invalid, after a valid one, into
\* settings with patterns: refused, nothing appended
ImportAllOrNothingWitness ==
  /\ op = "merged"
  /\ content.t = "object"
  /\ Get(content, "patterns").t = "array"
  /\ Len(Get(content, "patterns").v) = 2
  /\ ~BadPatternEntry(Get(content, "patterns").v[1])
  /\ BadPatternEntry(Get(content, "patterns").v[2])
  /\ ~result.success
  /\ Len(prev.renamePatterns) > 0
  /\ Settings = prev

(***************************************************************************)
(* C14  Merge-mode import preserves existing patterns: after a successful  *)
(* merge settings.renamePatterns is the previous list followed by the      *)
(* patterns of the file in file order, and the imported count returned is  *)
(* the number of patterns appended to it.                                  *)
(***************************************************************************)
MergeAppendsPatterns ==
  (op = "merged" /\ result.success) =>
    /\ patterns = prev.renamePatterns \o FilePatterns(content)
    /\ result.imported = Len(patterns) - Len(prev.renamePatterns)

\* C14 as the code has it: the previous list followed by the patterns of
\* the file, the property patterns of the file appended to
\* settings.propertyRenamePatterns, and the imported count is the number of
\* patterns appended to the two lists together
MergeAppendsBoth ==
  (op = "merged" /\ result.success) =>
    /\ patterns = prev.renamePatterns \o FilePatterns(content)
    /\ propertyPatterns = prev.propertyRenamePatterns \o FilePropertyPatterns(content)
    /\ result.imported = (Len(patterns) - Len(prev.renamePatterns))
                         + (Len(propertyPatterns) - Len(prev.propertyRenamePatterns))

\* two stored patterns, a file with two patterns and a property pattern:
\* four patterns afterwards, the stored ones first, and an imported count of 3
MergeAppendsBothWitness ==
  /\ op = "merged"
  /\ result.success
  /\ Len(prev.renamePatterns) = 2
  /\ Len(patterns) = 4
  /\ SubSeq(patterns, 1, 2) = prev.renamePatterns
  /\ Len(propertyPatterns) = Len(prev.propertyRenamePatterns) + 1
  /\ result.imported = 3

(***************************************************************************)
(* C15  Export/import round trip: importing the text of                    *)
(* exportPatternsToJson in replace mode, into a plugin in any state,       *)
(* succeeds and leaves settings.renamePatterns equal to the exported list, *)
(* same patterns in the same order, a pattern stored without removeMode    *)
(* being read back with removeMode = false.                                *)
(***************************************************************************)
\* the list with removeMode = false where it is missing
WithRemoveMode(list) ==
  [i \in 1..Len(list) |->
     [search |-> list[i].search,
      replace |-> list[i].replace,
      removeMode |-> IF "removeMode" \in DOMAIN list[i] THEN list[i].removeMode ELSE FALSE]]

ExportImportRoundTrip ==
  op = "reimported" =>
    /\ result.success
    /\ patterns = WithRemoveMode(prev.renamePatterns)

\* a list with a remove pattern and a pattern without removeMode came back
ExportImportRoundTripWitness ==
  /\ op = "reimported"
  /\ Len(prev.renamePatterns) = 2
  /\ "removeMode" \in DOMAIN prev.renamePatterns[1]
  /\ prev.renamePatterns[1].removeMode
  /\ "removeMode" \notin DOMAIN prev.renamePatterns[2]
  /\ result.success
  /\ result.imported = 2 + Len(prev.propertyRenamePatterns)
  /\ patterns[1] = prev.renamePatterns[1]
  /\ patterns[2].removeMode = FALSE

(***************************************************************************)
(* processFileContent on documents with one value, a display-link among    *)
(* them, and patterns whose replace has a space                            *)
(***************************************************************************)
sT == <<"t">>

sASpaceB == <<"a", " ", "b">>

\* the one value of a document: plain, a display-link, a display-link in quotes
OneValues == {sA, sLinkA, Quote(sLinkA), <<"[", "b", "]", "(", "t", ")">>}

\* searches: the display, the whole link, the target; replaces with and
\* without a space; no search equals a replace
ValuePatterns ==
  {[search |-> s, replace |-> r, removeMode |-> FALSE] :
     s \in {sA, sLinkA, sT}, r \in {sAB, sASpaceB}}
  \cup {[search |-> sA, replace |-> <<>>, removeMode |-> TRUE]}

ValueDocs ==
  {[fm |-> TRUE, header |-> <<f, OtherLine>>, body |-> "body"] :
     f \in {InputArray(<<v>>) : v \in OneValues}
           \cup {InputList(<<v>>) : v \in OneValues}
           \cup {InputScalar(v) : v \in OneValues}}

InitValue ==
  /\ content \in ValueDocs
  /\ patterns \in SeqsUpTo(ValuePatterns, 1, MaxPats)
  /\ result = content
  /\ prev = content
  /\ op = "init"
  /\ BatchIdle

SpecValue == InitValue /\ [][Next]_vars

(***************************************************************************)
(* Vocabulary of the properties of one value                               *)
(***************************************************************************)
\* the value has the form [display](target)
IsLink(v) == LinkClose(v) # 0

\* the part (target) of a display-link, parentheses included
Target(v) == SubSeq(v, LinkClose(v) + 1, Len(v))

\* the document processed had one value and this is it
TheValue == DocValues(content)[1]

OneValueProcessed == op = "processed" /\ Len(DocValues(content)) = 1

\* no pattern searches for the replace text of pattern i
NoChain(i) == \A j \in 1..Len(patterns) : patterns[j].search # patterns[i].replace

RECURSIVE Underscored(_)
Underscored(str) ==
  IF str = <<>> THEN <<>>
  ELSE IF IsWs(Head(str)) THEN <<"_">> \o Underscored(LStrip(str))
  ELSE <<Head(str)>> \o Underscored(Tail(str))

ReplacementUnderscored ==
  (OneValueProcessed /\ ~IsLink(TheValue)) =>
    LET i == FirstMatch(TheValue, patterns)
    IN  (i # 0 /\ ~patterns[i].removeMode /\ NoChain(i))
        => DocValues(result) = <<Underscored(patterns[i].replace)>>

(***************************************************************************)
(* C18  Field-name rename changes the name only: with one {from, to}       *)
(* pattern renameTagProperties rewrites the header lines whose field name  *)
(* is from, putting to in the place of the name and keeping indentation    *)
(* and value; all other header lines, list items included, and the body    *)
(* are unchanged, and a text without header is returned as it is.          *)
(***************************************************************************)
\* the lines of text that a sequence of line records stands for
RECURSIVE FlatTexts(_)
FlatTexts(lines) ==
  IF lines = <<>> THEN <<>> ELSE LineTexts(Head(lines)) \o FlatTexts(Tail(lines))

Indentation(text) == SubSeq(text, 1, Len(text) - Len(LStrip(text)))

\* the text before the first colon, trimmed, is name
IsNamed(text, name) ==
  /\ Includes(text, <<":">>)
  /\ Trim(SubSeq(text, 1, IndexOf(text, ":", 1) - 1)) = name

\* the line with the name replaced
NameReplaced(text, pattern) ==
  IF IsNamed(text, pattern.from)
  THEN Indentation(text) \o pattern.to
       \o SubSeq(text, Len(Indentation(text)) + Len(pattern.from) + 1, Len(text))
  ELSE text

RenameChangesNameOnly ==
  (op = "renameTagProperties" /\ Len(propertyPatterns) = 1) =>
    LET in == FrontmatterMatch(content)
        out == FrontmatterMatch(result)
        texts == FlatTexts(in.header)
    IN  IF in.fm
        THEN /\ out.fm
             /\ out.body = in.body
             /\ FlatTexts(out.header)
                  = [i \in 1..Len(texts) |-> NameReplaced(texts[i], propertyPatterns[1])]
        ELSE result = content

(***************************************************************************)
(* TagPropertyProcessor.findCustomTagProperties.  The frontmatter is the   *)
(* text of the header, its lines joined by "\n"; positions are 1-based.    *)
(***************************************************************************)
sNewline == <<"\n">>

IsSpaceOrNewline(c) == c \in {" ", "\n"}

RECURSIVE TrimStartAll(_)
TrimStartAll(s) ==
  IF s # <<>> /\ IsSpaceOrNewline(Head(s)) THEN TrimStartAll(Tail(s)) ELSE s

RECURSIVE TrimEndAll(_)
TrimEndAll(s) ==
  IF s # <<>> /\ IsSpaceOrNewline(s[Len(s)])
  THEN TrimEndAll(SubSeq(s, 1, Len(s) - 1))
  ELSE s

\* String.prototype.trim on a text that may hold line ends
TrimAll(s) == TrimEndAll(TrimStartAll(s))

Uppers ==
  <<"A", "B", "C", "D", "E", "F", "G", "H", "I", "J", "K", "L", "M",
    "N", "O", "P", "Q", "R", "S", "T", "U", "V", "W", "X", "Y", "Z">>

Lowers ==
  <<"a", "b", "c", "d", "e", "f", "g", "h", "i", "j", "k", "l", "m",
    "n", "o", "p", "q", "r", "s", "t", "u", "v", "w", "x", "y", "z">>

LowerChar(c) ==
  IF \E i \in 1..Len(Uppers) : Uppers[i] = c
  THEN Lowers[CHOOSE i \in 1..Len(Uppers) : Uppers[i] = c]
  ELSE c

\* String.prototype.toLowerCase
toLowerCase(s) == [i \in 1..Len(s) |-> LowerChar(s[i])]

\* const standardProps = new Set(['tags', 'tag', 'category', 'categories'])
standardProps ==
  {sTags, sTag, <<"c", "a", "t", "e", "g", "o", "r", "y">>,
   <<"c", "a", "t", "e", "g", "o", "r", "i", "e", "s">>}

\* const commonMetadata = new Set(['title', 'author', 'date', 'created',
\* 'modified', 'status', 'priority'])
commonMetadata ==
  {<<"t", "i", "t", "l", "e">>, <<"a", "u", "t", "h", "o", "r">>,
   <<"d", "a", "t", "e">>, <<"c", "r", "e", "a", "t", "e", "d">>,
   <<"m", "o", "d", "i", "f", "i", "e", "d">>,
   <<"s", "t", "a", "t", "u", "s">>,
   <<"p", "r", "i", "o", "r", "i", "t", "y">>}

\* nextLine.trim().startsWith('- ')
IsListItem(nextLine) == StartsWith(TrimAll(nextLine), <<"-", " ">>)

\* the loop over nextLines: a list item before any other line with text
RECURSIVE HasListItem(_)
HasListItem(nextLines) ==
  IF nextLines = <<>> THEN FALSE
  ELSE IF IsListItem(Head(nextLines)) THEN TRUE
  ELSE IF TrimAll(Head(nextLines)) # <<>> THEN FALSE
  ELSE HasListItem(Tail(nextLines))

\* TagPropertyProcessor.looksLikeTagProperty; startPos is the position of
\* the first character after the colon
looksLikeTagProperty(line, fullFrontmatter, startPos) ==
  LET trimmedLine == TrimAll(line)
      remainingText == SubSeq(fullFrontmatter, startPos, Len(fullFrontmatter))
      following == Tail(Split(remainingText, "\n"))
      nextLines == SubSeq(following, 1, IF Len(following) < 3 THEN Len(following) ELSE 3)
  IN  \/ /\ Len(trimmedLine) >= 2
         /\ Head(trimmedLine) = "["
         /\ trimmedLine[Len(trimmedLine)] = "]"
      \/ /\ trimmedLine = <<>>
         /\ HasListItem(nextLines)
      \/ /\ trimmedLine # <<>>
         /\ ~Includes(trimmedLine, <<" ">>)
         /\ Len(trimmedLine) < 50

\* the while loop over propertyRegex = /^(\s*)([^:]+?)(\s*:)/gmu from the
\* line start p on: a match runs from a line start to the first colon after
\* it, over line ends where the lines hold no colon, and needs one
\* character before the colon; the next match starts at a later line
RECURSIVE PropertyMatches(_, _)
PropertyMatches(frontmatter, p) ==
  LET colon == IF p > Len(frontmatter) THEN 0 ELSE IndexOf(frontmatter, ":", p)
      lineEnd == IF colon = 0 THEN 0 ELSE IndexOf(frontmatter, "\n", colon)
      propertyName == TrimAll(SubSeq(frontmatter, p, colon - 1))
      line == SubSeq(frontmatter, colon + 1,
                     IF lineEnd = 0 THEN Len(frontmatter) ELSE lineEnd - 1)
      rest == IF lineEnd = 0 THEN <<>> ELSE PropertyMatches(frontmatter, lineEnd + 1)
  IN  IF colon = 0 THEN <<>>
      ELSE IF colon = p THEN rest
      ELSE IF toLowerCase(propertyName) \in standardProps \cup commonMetadata THEN rest
      ELSE IF looksLikeTagProperty(line, frontmatter, colon + 1)
      THEN <<propertyName>> \o rest
      ELSE rest

\* TagPropertyProcessor.findCustomTagProperties
findCustomTagProperties(doc) ==
  IF ~doc.fm THEN <<>>
  ELSE Unique(PropertyMatches(Join(FlatTexts(doc.header), sNewline), 1))

(***************************************************************************)
(* Array.prototype.sort without a compare function: the order of the       *)
(* UTF-16 code units.                                                      *)
(***************************************************************************)
Others ==
  <<"\n", " ", "\"", "$", "'", "(", ")", "*", "+", ",", "-", ".", "/",
    "0", "1", "2", "3", "4", "5", "6", "7", "8", "9", ":">>

OtherUnits ==
  <<10, 32, 34, 36, 39, 40, 41, 42, 43, 44, 45, 46, 47,
    48, 49, 50, 51, 52, 53, 54, 55, 56, 57, 58>>

\* String.prototype.charCodeAt for the characters of the model
CodeUnit(c) ==
  IF \E i \in 1..Len(Uppers) : Uppers[i] = c
  THEN 64 + (CHOOSE i \in 1..Len(Uppers) : Uppers[i] = c)
  ELSE IF \E i \in 1..Len(Lowers) : Lowers[i] = c
  THEN 96 + (CHOOSE i \in 1..Len(Lowers) : Lowers[i] = c)
  ELSE IF \E i \in 1..Len(Others) : Others[i] = c
  THEN OtherUnits[CHOOSE i \in 1..Len(Others) : Others[i] = c]
  ELSE CASE c = "[" -> 91
         [] c = "\\" -> 92
         [] c = "]" -> 93
         [] c = "^" -> 94
         [] c = "_" -> 95
         [] OTHER -> 63

\* a < b for two strings
RECURSIVE Before(_, _)
Before(a, b) ==
  IF b = <<>> THEN FALSE
  ELSE IF a = <<>> THEN TRUE
  ELSE IF CodeUnit(Head(a)) # CodeUnit(Head(b)) THEN CodeUnit(Head(a)) < CodeUnit(Head(b))
  ELSE Before(Tail(a), Tail(b))

RECURSIVE InsertSorted(_, _)
InsertSorted(x, sorted) ==
  IF sorted = <<>> THEN <<x>>
  ELSE IF Before(x, Head(sorted)) THEN <<x>> \o sorted
  ELSE <<Head(sorted)>> \o InsertSorted(x, Tail(sorted))

\* Array.from(allTags).sort()
RECURSIVE Sort(_)
Sort(array) ==
  IF array = <<>> THEN <<>>
  ELSE InsertSorted(array[Len(array)], Sort(SubSeq(array, 1, Len(array) - 1)))

(***************************************************************************)
(* FileService: the vault scans getAllTagsInVault and                      *)
(* findCustomTagPropertiesInVault.  The files are taken in groups of       *)
(* BATCH_SIZE; the reads of one group are started together and complete or *)
(* reject in any order; when all of them are settled their arrays are      *)
(* added to the Set in the order of the files, and the next group starts.  *)
(***************************************************************************)
BATCH_SIZE == 10

Scans == {"getAllTagsInVault", "findCustomTagPropertiesInVault"}

\* this.app.vault.getMarkdownFiles(): the files of the vault but file 0,
\* which is no markdown file
getMarkdownFiles == [i \in 1..Cardinality((DOMAIN vault) \ {0}) |-> i]

\* what the callback of batch.map returns for a text that was read
Extracted(scan, text) ==
  IF scan = "getAllTagsInVault" THEN extractTagsFromContent(text)
  ELSE findCustomTagProperties(text)

\* a rejected read is not caught
CatchesReadErrorNone(scan) == FALSE

\* try { ... } catch (error) { console.error(...); return []; }
CatchesReadError(scan) == scan \in Scans

\* all the files that are left
SliceAll(i) == {k \in i..Len(files) : TRUE}

\* the positions in files of markdownFiles.slice(i, i + BATCH_SIZE)
Slice(i) == {k \in i..(i + BATCH_SIZE - 1) : k <= Len(files)}

RECURSIVE AddAll(_, _, _)
\* batchResults.forEach(tags => tags.forEach(tag => allTags.add(tag)))
AddAll(set, results, k) ==
  IF k > Len(files) \/ k \notin DOMAIN results THEN set
  ELSE AddAll(Unique(set \o results[k]), results, k + 1)

\* the call, up to the first await Promise.all(batchPromises)
StartScan(scan) ==
  /\ pc = "idle"
  /\ batch' = scan
  /\ files' = getMarkdownFiles
  /\ idx' = 1
  /\ allTags' = <<>>
  /\ batchResults' = <<>>
  /\ IF Len(getMarkdownFiles) = 0
     THEN /\ result' = <<>>
          /\ pc' = "done"
     ELSE /\ pc' = "scan"
          /\ UNCHANGED result
  /\ UNCHANGED <<content, patterns, prev, op>>
  /\ UNCHANGED <<propertyPatterns, vault, validPatterns, readText, processedCount,
                 modifiedCount, notices, writes, reads, raised, wasModified>>

StartGetAllTagsInVault == StartScan("getAllTagsInVault")

StartFindCustomTagPropertiesInVault == StartScan("findCustomTagPropertiesInVault")

Resolved(k, tags) ==
  [j \in DOMAIN batchResults \cup {k} |-> IF j = k THEN tags ELSE batchResults[j]]

\* the log of the settled reads with the read of files[k] added: batch.map
\* issues the reads of a group in the order of the files
Logged(k, entry) ==
  LET Position(file) == CHOOSE i \in 1..Len(files) : files[i] = file
      Earlier(e) == Position(e.file) < k
      Later(e) == Position(e.file) > k
  IN  SelectSeq(reads, Earlier) \o <<entry>> \o SelectSeq(reads, Later)

ScanFrame ==
  /\ UNCHANGED <<content, patterns, prev, op>>
  /\ UNCHANGED <<propertyPatterns, vault, batch, validPatterns, files, readText,
                 processedCount, modifiedCount, notices, writes, wasModified>>

\* await this.app.vault.read(file) of one file of the group completes
ScanReadOk ==
  /\ pc = "scan"
  /\ \E k \in Slice(idx) \ DOMAIN batchResults :
       /\ batchResults' = Resolved(k, Extracted(batch, vault[files[k]]))
       /\ reads' = Logged(k, [file |-> files[k], ok |-> TRUE, text |-> vault[files[k]]])
  /\ UNCHANGED <<result, idx, pc, allTags, raised>>
  /\ ScanFrame

\* await this.app.vault.read(file) of one file of the group rejects
ScanReadFail ==
  /\ pc = "scan"
  /\ \E k \in Slice(idx) \ DOMAIN batchResults :
       /\ reads' = Logged(k, [file |-> files[k], ok |-> FALSE, text |-> NoText])
       /\ IF CatchesReadError(batch)
          THEN /\ batchResults' = Resolved(k, <<>>)
               /\ UNCHANGED <<pc, raised>>
          ELSE /\ raised' = TRUE
               /\ pc' = "done"
               /\ UNCHANGED batchResults
  /\ UNCHANGED <<result, idx, allTags>>
  /\ ScanFrame

\* Promise.all resolves; the results go into the Set; then the next group,
\* or return Array.from(allTags).sort()
ScanBatchDone ==
  /\ pc = "scan"
  /\ Slice(idx) \subseteq DOMAIN batchResults
  /\ allTags' = AddAll(allTags, batchResults, idx)
  /\ batchResults' = <<>>
  /\ idx' = idx + BATCH_SIZE
  /\ IF idx + BATCH_SIZE > Len(files)
     THEN /\ result' = Sort(allTags')
          /\ pc' = "done"
     ELSE UNCHANGED <<result, pc>>
  /\ UNCHANGED <<reads, raised>>
  /\ ScanFrame

sUpperB == <<"B">>

\* texts with the tags a and B, with B and b, and a text without header
ScanDocs ==
  {[fm |-> TRUE, header |-> <<InputArray(<<sA, sUpperB>>), OtherLine>>, body |-> "body"],
   [fm |-> TRUE, header |-> <<DollarLine, InputList(<<sUpperB, sB>>)>>, body |-> "body"],
   [fm |-> FALSE, header |-> <<InputArray(<<sC>>)>>, body |-> "body"]}

InitScan ==
  /\ content = [fm |-> FALSE, header |-> <<>>, body |-> "body"]
  /\ result = content
  /\ prev = content
  /\ op = "scan"
  /\ patterns = <<>>
  /\ propertyPatterns = <<>>
  /\ vault \in {v \in [0..MaxFiles -> ScanDocs] : ~v[0].fm}
  /\ batch = "none"
  /\ validPatterns = <<>>
  /\ files = <<>>
  /\ idx = 0
  /\ pc = "idle"
  /\ readText = content
  /\ processedCount = 0
  /\ modifiedCount = 0
  /\ notices = <<>>
  /\ writes = <<>>
  /\ reads = <<>>
  /\ raised = FALSE
  /\ wasModified = FALSE
  /\ allTags = <<>>
  /\ batchResults = <<>>

NextScan ==
  \/ StartGetAllTagsInVault
  \/ StartFindCustomTagPropertiesInVault
  \/ ScanReadOk
  \/ ScanReadFail
  \/ ScanBatchDone

SpecScan == InitScan /\ [][NextScan]_vars

(***************************************************************************)
(* The vocabulary of the claims about the vault scans.                     *)
(***************************************************************************)
Elems(array) == {array[i] : i \in DOMAIN array}

\* the files whose read completed, and those whose read rejected
ReadFiles == {reads[i].file : i \in {j \in DOMAIN reads : reads[j].ok}}

UnreadFiles == {reads[i].file : i \in {j \in DOMAIN reads : ~reads[j].ok}}

\* the scan has returned
ScanDone(scan) == pc = "done" /\ batch = scan

\* the values the scan finds in the text of a file
Found(scan, file) == Elems(Extracted(scan, vault[file]))

\* no value twice
EachOnce(array) == \A i, j \in DOMAIN array : i # j => array[i] # array[j]

\* no value stands before one that is smaller when letter case is ignored
OrderedIgnoringCase(array) ==
  \A i, j \in DOMAIN array :
    i < j => ~Before(toLowerCase(array[j]), toLowerCase(array[i]))

(***************************************************************************)
(* C19  Vault tag index result: getAllTagsInVault returns exactly the      *)
(* distinct tag values extracted from the documents that could be read,    *)
(* each value once, in an order that ignores letter case.                  *)
(***************************************************************************)
VaultTagIndex ==
  ScanDone("getAllTagsInVault") =>
    /\ Elems(result) = UNION {Found("getAllTagsInVault", f) : f \in ReadFiles}
    /\ EachOnce(result)
    /\ OrderedIgnoringCase(result)

(***************************************************************************)
(* C20  Vault scan tolerates read failures: getAllTagsInVault and          *)
(* findCustomTagPropertiesInVault never raise when reads fail; the result  *)
(* holds every value of every document whose read succeeded and no value   *)
(* that occurs only in documents whose read failed; when every read fails  *)
(* the result is the empty list.                                           *)
(***************************************************************************)
ScanToleratesReadFailures ==
  /\ batch \in Scans => ~raised
  /\ \A scan \in Scans :
       ScanDone(scan) =>
         /\ \A f \in ReadFiles : Found(scan, f) \subseteq Elems(result)
         /\ \A tag \in Elems(result) : \E f \in ReadFiles : tag \in Found(scan, f)
         /\ ReadFiles = {} => result = <<>>

\* a scan has returned values although the read of a file failed whose
\* text holds a value that no readable file holds
ScanToleratesReadFailuresWitness ==
  /\ ScanDone("getAllTagsInVault")
  /\ result # <<>>
  /\ \E f \in UnreadFiles : \E tag \in Found("getAllTagsInVault", f) : tag \notin Elems(result)

(***************************************************************************)
(* Vocabulary of the properties of one step of a folder batch              *)
(***************************************************************************)
\* the text the running batch has to make of a text, by its kind
Expected(text) ==
  IF batch = "renameTags" THEN processFileContent(text, validPatterns)
  ELSE IF batch = "renameTagProperties" THEN renameTagProperties(text, validPatterns)
  ELSE removeDuplicateTagsFromContent(text)

\* the position in files of the file of the w-th write
WritePosition(w) == CHOOSE i \in 1..Len(files) : files[i] = writes[w].file

(***************************************************************************)
(* C21  Sequential, per-file atomic batch: in a folder batch the read, the *)
(* transform and the conditional write of a file are over before the read  *)
(* of the next file is issued: while a write is in flight no read of a     *)
(* later file has been issued and every earlier write is settled, no file  *)
(* is written twice, and the text written to a file is the transform of    *)
(* the text read from that file in the same step.                          *)
(***************************************************************************)
PerFileAtomic ==
  Looping =>
    /\ pc = "write" =>
         /\ Len(reads) = idx
         /\ reads[idx].file = files[idx] /\ reads[idx].ok
         /\ result = Expected(reads[idx].text)
         /\ ~WriteIssued(files[idx])
    /\ pc = "read" => Len(reads) = idx - 1
    /\ \A w \in 1..Len(writes) :
         /\ writes[w].file \in {files[i] : i \in 1..Len(reads)}
         /\ reads[WritePosition(w)].ok
         /\ writes[w].text = Expected(reads[WritePosition(w)].text)
    /\ \A v, w \in 1..Len(writes) : v < w => WritePosition(v) < WritePosition(w)

\* two files were written one after the other, each with the transform of
\* its own text, and a third write is in flight
PerFileAtomicWitness ==
  /\ batch \in FolderBatches
  /\ pc = "write"
  /\ idx = 3
  /\ Len(writes) = 2
  /\ writes[1].ok /\ writes[2].ok
  /\ writes[1].file = files[1] /\ writes[2].file = files[2]
  /\ writes[1].text = Expected(reads[1].text)
  /\ result # reads[3].text

(***************************************************************************)
(* The folder changes while a batch runs: files are created and deleted    *)
(* by the user or by another program while the batch is suspended on a     *)
(* read or a write.  prev is the vault as it was when the batch was        *)
(* called: nothing changes the vault before the call.                      *)
(***************************************************************************)
Suspended == pc \in {"read", "write"}

EnvFrame ==
  /\ UNCHANGED <<content, patterns, result, prev, op>>
  /\ UNCHANGED <<propertyPatterns, batch, validPatterns, files, idx, pc, readText,
                 processedCount, modifiedCount, notices, writes, reads, raised,
                 wasModified, allTags, batchResults>>

NewText == [fm |-> TRUE, header |-> <<OtherLine, InputArray(<<sA, sA>>)>>, body |-> "body"]

\* a markdown file that was not in the folder is created in it
CreateFile ==
  /\ Suspended
  /\ \E id \in (1..MaxFiles) \ (DOMAIN vault \cup DOMAIN prev) :
       vault' = [f \in DOMAIN vault \cup {id} |-> IF f = id THEN NewText ELSE vault[f]]
  /\ EnvFrame

\* a file of the folder is deleted
DeleteFile ==
  /\ Suspended
  /\ \E id \in DOMAIN vault \ {0} :
       vault' = [f \in DOMAIN vault \ {id} |-> vault[f]]
  /\ EnvFrame

\* the texts of the folder: one that every batch changes, one without header
SnapshotDocs ==
  {NewText, [fm |-> FALSE, header |-> <<InputArray(<<sA, sA>>)>>, body |-> "body"]}

\* the folders the batches are called on: the file that is no markdown file
\* and at least one of the markdown files
SnapshotVaults ==
  UNION {{v \in [D \cup {0} -> SnapshotDocs] : ~v[0].fm} :
           D \in (SUBSET (1..MaxFiles)) \ {{}}}

InitSnapshot ==
  /\ content = [fm |-> FALSE, header |-> <<>>, body |-> "body"]
  /\ result = content
  /\ op = "batch"
  /\ patterns = <<[search |-> sA, replace |-> sB, removeMode |-> FALSE]>>
  /\ propertyPatterns = <<[from |-> <<"t">>, to |-> <<"u">>]>>
  /\ vault \in SnapshotVaults
  /\ prev = vault
  /\ batch = "none"
  /\ validPatterns = <<>>
  /\ files = <<>>
  /\ idx = 0
  /\ pc = "idle"
  /\ readText = content
  /\ processedCount = 0
  /\ modifiedCount = 0
  /\ notices = <<>>
  /\ writes = <<>>
  /\ reads = <<>>
  /\ raised = FALSE
  /\ wasModified = FALSE
  /\ allTags = <<>>
  /\ batchResults = <<>>

NextSnapshot ==
  \/ StartRenameTags
  \/ StartRemoveDuplicatesFromFolder
  \/ StartRenameTagProperties
  \/ ReadOk
  \/ ReadFail
  \/ WriteOk
  \/ WriteFail
  \/ Finish
  \/ CreateFile
  \/ DeleteFile

SpecSnapshot == InitSnapshot /\ [][NextSnapshot]_vars

(***************************************************************************)
(* Vocabulary of the properties of the enumeration                         *)
(***************************************************************************)
\* the markdown files that were in the folder or in a subfolder of it when
\* the batch was called: file 0 is the one that is no markdown file
MarkdownAtCall == (DOMAIN prev) \ {0}

FilesRead == {reads[i].file : i \in 1..Len(reads)}

FilesWritten == {writes[w].file : w \in 1..Len(writes)}

\* the enumeration is what was in the folder at the call, the reads follow
\* it and nothing else is read or written
SnapshotFollowed ==
  Looping =>
    /\ {files[i] : i \in 1..Len(files)} = MarkdownAtCall
    /\ \A i, j \in 1..Len(files) : files[i] = files[j] => i = j
    /\ \A i \in 1..Len(reads) : reads[i].file = files[i]
    /\ FilesRead \subseteq MarkdownAtCall
    /\ FilesWritten \subseteq MarkdownAtCall
    /\ pc = "done" => Len(reads) = Len(files)

\* the read of a file that is not there any more fails, is reported, and
\* the batch goes on to the next file
DeletedIsSkipped ==
  (/\ batch \in FolderBatches
   /\ pc = "read"
   /\ idx <= Len(files)
   /\ files[idx] \notin DOMAIN vault
   /\ reads' # reads)
    => /\ Len(reads') = idx
       /\ ~reads'[idx].ok
       /\ notices' = Append(notices, [type |-> "error", file |-> files[idx]])
       /\ writes' = writes
       /\ vault' = vault
       /\ idx' = idx + 1
       /\ pc' = "read"

(***************************************************************************)
(* C22  Enumeration snapshot: a folder batch enumerates the markdown files *)
(* of the folder and its subfolders once, when it is called; it reads      *)
(* exactly these files, each once and in this order, and no other file;    *)
(* a file created while the batch runs is never read or written by it; a   *)
(* file of the enumeration that was deleted before its turn fails its own  *)
(* read, is reported and skipped, and the other files are processed.       *)
(***************************************************************************)
EnumerationSnapshot == []SnapshotFollowed /\ [][DeletedIsSkipped]_vars

\* a batch came to its end in which a file of the enumeration had been
\* deleted before its read, a later file was read and written, and a file
\* created meanwhile was left alone
EnumerationSnapshotWitness ==
  /\ batch \in FolderBatches
  /\ pc = "done"
  /\ \E i, j \in 1..Len(reads) :
       /\ i < j
       /\ files[i] \notin DOMAIN vault
       /\ ~reads[i].ok
       /\ ErrorNotice(files[i])
       /\ reads[j].ok
       /\ WriteIssued(files[j])
  /\ \E id \in DOMAIN vault \ {0} :
       id \notin MarkdownAtCall /\ id \notin FilesRead \cup FilesWritten

(***************************************************************************)
(* C23  Removed tags do not survive: when the pattern list holds a         *)
(* remove-mode pattern with search s, the output of processFileContent     *)
(* holds no tag value equal to s, in no tags field and in no tag scalar,   *)
(* whatever the other patterns are and wherever the pattern stands.        *)
(***************************************************************************)
RemovedTagsGone ==
  op = "processed" =>
    \A j \in 1..Len(patterns) :
      patterns[j].removeMode =>
        \A n \in 1..Len(DocValues(result)) : DocValues(result)[n] # patterns[j].search

(***************************************************************************)
(* Vocabulary of the properties of the scalar shape                        *)
(***************************************************************************)
IsScalar(line) == line.k = "scalar"

IsTagsLine(line) == line.k \in {"array", "list"}

\* the document has a header with one line  tag: v  and no tags field
OneScalar(doc) ==
  /\ doc.fm
  /\ CountLines(doc.header, IsScalar) = 1
  /\ CountLines(doc.header, IsTagsLine) = 0

\* the value of the line  tag: v  as the patterns are tested on it
ScalarValue(doc) == StripQuotes(Trim(SelectSeq(doc.header, IsScalar)[1].text))

\* what a non-remove pattern makes of value v: the replace text, inside the
\* link when v is a display-link
Rewritten(v, pattern) ==
  IF extractDisplayText(v) # v
  THEN <<"[">> \o pattern.replace \o SubSeq(v, Len(extractDisplayText(v)) + 2, Len(v))
  ELSE pattern.replace

(***************************************************************************)
(* C24  Scalar shape: for a header line  tag: v  the first pattern whose   *)
(* search equals v decides: a remove-mode pattern deletes the whole line,  *)
(* a non-remove pattern rewrites the line to  tag: "<replace>"; when no    *)
(* pattern matches the document is unchanged; in all cases the other       *)
(* header fields are unchanged.                                            *)
(***************************************************************************)
ScalarShape ==
  (op = "processed" /\ OneScalar(content)) =>
    LET v == ScalarValue(content)
        i == FirstMatch(v, patterns)
    IN  IF i = 0 THEN result = content
        ELSE /\ result.fm
             /\ OtherLines(result) = OtherLines(content)
             /\ CountLines(result.header, IsTagsLine) = 0
             /\ SelectSeq(result.header, IsScalar)
                  = (IF patterns[i].removeMode THEN <<>>
                     ELSE <<[k |-> "scalar", text |-> Quote(Rewritten(v, patterns[i]))]>>)

(***************************************************************************)
(* Vocabulary of the properties of the pattern filter of renameTags        *)
(***************************************************************************)
\* the search is empty, or the pattern does not remove and has no replace
Ignored(p) == p.search = <<>> \/ (~p.removeMode /\ p.replace = <<>>)

NotIgnored(p) == ~Ignored(p)

\* the patterns of the settings that are not ignored, in their order
Kept == SelectSeq(patterns, NotIgnored)

\* the search of ignored pattern p is the search of no other pattern
OnlyIgnored(p) == \A j \in 1..Len(Kept) : Kept[j].search # p.search

(***************************************************************************)
(* C25  Invalid patterns are inert in a batch: renameTags ignores every    *)
(* pattern with an empty search and every non-remove pattern with an       *)
(* empty replace and applies the other patterns of the list: every file    *)
(* is transformed with the remaining patterns alone, a tag equal to the    *)
(* search of an ignored pattern is left as it is, and when no pattern      *)
(* remains the batch reads no file and writes no file.                     *)
(***************************************************************************)
InvalidPatternsInert ==
  batch = "renameTags" =>
    /\ Kept = <<>> => (reads = <<>> /\ writes = <<>>)
    /\ \A i \in 1..Len(reads) :
         (Settled(i) /\ reads[i].ok) =>
           (WriteIssued(files[i])
              <=> processFileContent(reads[i].text, Kept) # reads[i].text)
    /\ \A w \in 1..Len(writes) :
         LET text == reads[WritePosition(w)].text
         IN  /\ writes[w].text = processFileContent(text, Kept)
             /\ \A j \in 1..Len(patterns) :
                  (Ignored(patterns[j]) /\ OnlyIgnored(patterns[j])) =>
                    Count(patterns[j].search, DocValues(writes[w].text))
                      >= Count(patterns[j].search, DocValues(text))

\* a batch with an ignored pattern and a valid one came to its end: a file
\* whose only tag is the search of the ignored pattern was read and not
\* written, and another file was written
InvalidPatternsInertWitness ==
  /\ batch = "renameTags"
  /\ pc = "done"
  /\ Len(Kept) = 1
  /\ \E j \in 1..Len(patterns) :
       /\ Ignored(patterns[j])
       /\ patterns[j].search # <<>>
       /\ \E i \in 1..Len(reads) :
            /\ reads[i].ok
            /\ DocValues(reads[i].text) = <<patterns[j].search>>
            /\ ~WriteIssued(files[i])
  /\ \E w \in 1..Len(writes) : writes[w].ok

(***************************************************************************)
(* Vocabulary of the properties of the order of the patterns               *)
(***************************************************************************)
\* the document has a header with one tags field, array or list, no tag line
OneTagsField(doc) ==
  /\ doc.fm
  /\ CountLines(doc.header, IsTagsLine) = 1
  /\ CountLines(doc.header, IsScalar) = 0

\* what becomes of value v when the patterns are applied to it one after
\* the other, each to what the patterns before it left: no value, or one
RECURSIVE Chained(_, _)
Chained(v, pats) ==
  IF pats = <<>> THEN <<v>>
  ELSE IF Head(pats).search # extractDisplayText(v) THEN Chained(v, Tail(pats))
  ELSE IF Head(pats).removeMode THEN <<>>
  ELSE Chained(Rewritten(v, Head(pats)), Tail(pats))

RECURSIVE ChainedAll(_, _)
ChainedAll(values, pats) ==
  IF values = <<>> THEN <<>>
  ELSE Chained(Head(values), pats) \o ChainedAll(Tail(values), pats)

(***************************************************************************)
(* C26  Pattern chaining in list order: in the array and the list shape    *)
(* the patterns are applied one after the other to the running list of     *)
(* values: a value produced by a pattern is matched by a later pattern     *)
(* exactly when the search of that pattern equals the produced value, and  *)
(* never by an earlier pattern; there is no second pass.                   *)
(***************************************************************************)
ChainsInListOrder ==
  (op = "processed" /\ OneTagsField(content)) =>
    DocValues(result) = ChainedAll(DocValues(content), patterns)

\* a value was rewritten by the first pattern and what it had become by the
\* second, in an array field
ChainsInListOrderWitness ==
  /\ op = "processed"
  /\ OneTagsField(content)
  /\ CountLines(content.header, IsArray) = 1
  /\ DocValues(content) = <<sA>>
  /\ Len(patterns) = 2
  /\ patterns[1].search = sA /\ patterns[1].replace = sB /\ ~patterns[1].removeMode
  /\ patterns[2].search = sB /\ patterns[2].replace = sAB /\ ~patterns[2].removeMode
  /\ DocValues(result) = <<sAB>>

(***************************************************************************)
(* C27  Shape-independent per-value result: for a value v and a pattern    *)
(* list, what becomes of v (kept, replaced by a given value, removed) is   *)
(* the same whether v stands in an array-shape tags field, in a list-shape *)
(* tags field or in the scalar  tag: v.                                    *)
(***************************************************************************)
\* the three documents that hold value v alone, one for each shape
Shapes(v) ==
  {[fm |-> TRUE, header |-> <<f, OtherLine>>, body |-> "body"] :
     f \in {InputArray(<<v>>), InputList(<<v>>), InputScalar(v)}}

ShapeIndependent ==
  (op = "processed" /\ content.fm /\ Len(DocValues(content)) = 1) =>
    \A doc \in Shapes(DocValues(content)[1]) :
      DocValues(processFileContent(doc, patterns)) = DocValues(result)

(***************************************************************************)
(* The settings change while renameTags runs.  A pattern is an object:     *)
(* its field id is its identity.  renameTags is given the array            *)
(* settings.renamePatterns; patterns.filter makes a new array of the same  *)
(* objects, so validPatterns shares its objects with the settings, and an  *)
(* assignment to a field of a pattern of the settings is an assignment to  *)
(* the pattern of validPatterns with the same identity.  prev is the list  *)
(* of the settings as it was when the batch was called.                    *)
(***************************************************************************)
MaxObjects == 3

\* the settings are changed at most MaxEdits times while a batch runs
MaxEdits == 1

ObjectIds == 1..MaxObjects

UsedIds ==
  {patterns[i].id : i \in 1..Len(patterns)}
    \cup {validPatterns[i].id : i \in 1..Len(validPatterns)}

\* this.plugin.settings.renamePatterns[index][field] = value
AssignField(index, field, value) ==
  /\ Suspended
  /\ index \in 1..Len(patterns)
  /\ patterns[index][field] # value
  /\ patterns' = [patterns EXCEPT ![index][field] = value]
  /\ validPatterns' =
       [k \in 1..Len(validPatterns) |->
          IF validPatterns[k].id = patterns[index].id
          THEN [validPatterns[k] EXCEPT ![field] = value]
          ELSE validPatterns[k]]

SettingsFrame ==
  /\ op < MaxEdits
  /\ op' = op + 1
  /\ UNCHANGED <<content, result, prev>>
  /\ UNCHANGED <<propertyPatterns, vault, batch, files, idx, pc, readText,
                 processedCount, modifiedCount, notices, writes, reads, raised,
                 wasModified, allTags, batchResults>>

\* onChange of the search text field
EditSearch ==
  /\ \E index \in 1..Len(patterns) : \E value \in {sA, sB} :
       AssignField(index, "search", value)
  /\ SettingsFrame

\* onChange of the remove mode toggle
ToggleRemoveMode ==
  /\ \E index \in 1..Len(patterns) :
       AssignField(index, "removeMode", ~patterns[index].removeMode)
  /\ SettingsFrame

\* onChange of the replace text field
EditReplace ==
  /\ \E index \in 1..Len(patterns) : \E value \in {sB, sC} :
       AssignField(index, "replace", value)
  /\ SettingsFrame

\* onClick of the trash button: renamePatterns.splice(index, 1)
DeletePattern ==
  /\ Suspended
  /\ \E index \in 1..Len(patterns) :
       patterns' = SubSeq(patterns, 1, index - 1) \o SubSeq(patterns, index + 1, Len(patterns))
  /\ UNCHANGED validPatterns
  /\ SettingsFrame

\* onClick of the add button: renamePatterns.push({search: '', replace: '',
\* removeMode: false}), a new object
AddPattern ==
  /\ Suspended
  /\ Len(patterns) < MaxPats
  /\ ObjectIds \ UsedIds # {}
  /\ patterns' = Append(patterns,
                        [id |-> CHOOSE id \in ObjectIds \ UsedIds :
                                  \A other \in ObjectIds \ UsedIds : id <= other,
                         search |-> <<>>, replace |-> <<>>, removeMode |-> FALSE])
  /\ UNCHANGED validPatterns
  /\ SettingsFrame

ConfigText == [fm |-> TRUE, header |-> <<InputArray(<<sA, sB>>), OtherLine>>, body |-> "body"]

InitConfig ==
  /\ content = [fm |-> FALSE, header |-> <<>>, body |-> "body"]
  /\ result = content
  /\ op = 0
  /\ patterns \in
       {<<[id |-> 1, search |-> sA, replace |-> sC, removeMode |-> FALSE]>>,
        <<[id |-> 1, search |-> <<>>, replace |-> sC, removeMode |-> FALSE],
          [id |-> 2, search |-> sB, replace |-> <<>>, removeMode |-> TRUE]>>}
  /\ prev = patterns
  /\ propertyPatterns = <<>>
  /\ vault = [f \in 0..MaxFiles |-> ConfigText]
  /\ batch = "none"
  /\ validPatterns = <<>>
  /\ files = <<>>
  /\ idx = 0
  /\ pc = "idle"
  /\ readText = content
  /\ processedCount = 0
  /\ modifiedCount = 0
  /\ notices = <<>>
  /\ writes = <<>>
  /\ reads = <<>>
  /\ raised = FALSE
  /\ wasModified = FALSE
  /\ allTags = <<>>
  /\ batchResults = <<>>

NextConfig ==
  \/ StartRenameTags
  \/ ReadOk
  \/ ReadFail
  \/ WriteOk
  \/ WriteFail
  \/ Finish
  \/ EditSearch
  \/ ToggleRemoveMode
  \/ EditReplace
  \/ DeletePattern
  \/ AddPattern

SpecConfig == InitConfig /\ [][NextConfig]_vars

(***************************************************************************)
(* C28  One configuration per batch: every file of a renameTags batch is   *)
(* transformed with the pattern list as it was when the batch was called;  *)
(* adding, deleting or editing a pattern in the settings while the batch   *)
(* is suspended on a read or a write does not change the patterns applied  *)
(* to the files processed afterwards.                                      *)
(***************************************************************************)
\* the patterns the batch was called with, without the ignored ones
ConfigurationAtCall == SelectSeq(prev, NotIgnored)

OneConfiguration ==
  (batch = "renameTags" /\ Looping) =>
    /\ \A i \in 1..Len(reads) :
         (Settled(i) /\ reads[i].ok) =>
           (WriteIssued(files[i])
              <=> processFileContent(reads[i].text, ConfigurationAtCall) # reads[i].text)
    /\ \A w \in 1..Len(writes) :
         writes[w].text
           = processFileContent(reads[WritePosition(w)].text, ConfigurationAtCall)

(***************************************************************************)
(* getAllTagsInVault on a vault of more than BATCH_SIZE files: the files   *)
(* of the first group hold the tags a, B and b, the others the tag c.      *)
(***************************************************************************)
MaxExtra == 1

GroupText(file) ==
  IF file > BATCH_SIZE
  THEN [fm |-> TRUE, header |-> <<InputScalar(sC)>>, body |-> "body"]
  ELSE IF file % 2 = 1
  THEN [fm |-> TRUE, header |-> <<InputArray(<<sA, sUpperB>>), OtherLine>>, body |-> "body"]
  ELSE [fm |-> TRUE, header |-> <<DollarLine, InputList(<<sUpperB, sB>>)>>, body |-> "body"]

InitGroups ==
  /\ content = [fm |-> FALSE, header |-> <<>>, body |-> "body"]
  /\ result = content
  /\ prev = content
  /\ op = "scan"
  /\ patterns = <<>>
  /\ propertyPatterns = <<>>
  /\ vault = [f \in 0..(BATCH_SIZE + MaxExtra) |-> GroupText(f)]
  /\ batch = "none"
  /\ validPatterns = <<>>
  /\ files = <<>>
  /\ idx = 0
  /\ pc = "idle"
  /\ readText = content
  /\ processedCount = 0
  /\ modifiedCount = 0
  /\ notices = <<>>
  /\ writes = <<>>
  /\ reads = <<>>
  /\ raised = FALSE
  /\ wasModified = FALSE
  /\ allTags = <<>>
  /\ batchResults = <<>>

NextGroups ==
  \/ StartGetAllTagsInVault
  \/ ScanReadOk
  \/ ScanReadFail
  \/ ScanBatchDone

SpecGroups == InitGroups /\ [][NextGroups]_vars

(***************************************************************************)
(* Vocabulary of the properties of the groups of a vault scan              *)
(***************************************************************************)
\* the position in files of a file
PositionOf(file) == CHOOSE i \in 1..Len(files) : files[i] = file

\* the positions of the files whose read has settled
SettledPositions == {PositionOf(reads[i].file) : i \in 1..Len(reads)}

\* the values of the files at positions before i whose read completed
FoundBefore(i) ==
  UNION {Found("getAllTagsInVault", reads[r].file) :
           r \in {j \in 1..Len(reads) : reads[j].ok /\ PositionOf(reads[j].file) < i}}

\* array is the list of the values of set in code-unit order
IsSortedListOf(array, set) ==
  /\ Elems(array) = set
  /\ \A i, j \in 1..Len(array) : i < j => Before(array[i], array[j])

(***************************************************************************)
(* C29  Vault scan is deterministic under interleaving: getAllTagsInVault  *)
(* has the reads of at most BATCH_SIZE files issued at a time, issues the  *)
(* reads of a group only when every read of the groups before has          *)
(* completed or failed, adds to the result set only when a whole group     *)
(* has settled, and returns a list that depends on the texts and on which  *)
(* reads failed but not on the order in which the reads completed.         *)
(***************************************************************************)
ScanInGroups ==
  batch = "getAllTagsInVault" =>
    /\ pc = "scan" =>
         /\ (idx - 1) % BATCH_SIZE = 0
         /\ \A k \in SettledPositions : k < idx + BATCH_SIZE
         /\ (SettledPositions # {} /\ \E k \in SettledPositions : k >= idx)
              => \A k \in 1..(idx - 1) : k \in SettledPositions
         /\ Elems(allTags) = FoundBefore(idx)
    /\ pc = "done" =>
         /\ SettledPositions = 1..Len(files)
         /\ IsSortedListOf(result, FoundBefore(Len(files) + 1))

\* a scan of more files than one group has returned; a read of the first
\* group had failed, and a value of the second group is in the result
ScanInGroupsWitness ==
  /\ batch = "getAllTagsInVault"
  /\ pc = "done"
  /\ Len(files) > BATCH_SIZE
  /\ \E i \in 1..Len(reads) : ~reads[i].ok /\ PositionOf(reads[i].file) <= BATCH_SIZE
  /\ \E i \in 1..Len(reads) :
       /\ reads[i].ok
       /\ PositionOf(reads[i].file) > BATCH_SIZE
       /\ Found("getAllTagsInVault", reads[i].file) \subseteq Elems(result)
       /\ Found("getAllTagsInVault", reads[i].file) # {}
  /\ Len(result) = 4

====
